---------------------------- MODULE Spec2Model ----------------------------
(***************************************************************************)
(* A model of the broker facade (lib/amqp/Broker.js) and of the            *)
(* configurator (lib/config/configure.js).                                 *)
(*                                                                         *)
(* Text values are sequences of one-character strings, so that parsing and *)
(* concatenation are computed character by character:  "e1" is <<"e","1">>. *)
(* The JavaScript values undefined and true are the one-element sequences  *)
(* Undef and True, whose element is no single character and so equals no   *)
(* text.                                                                   *)
(***************************************************************************)
EXTENDS Integers, Sequences, FiniteSets, Bags, TLC

Undef == <<"undefined">>
True == <<"true">>

\* The regular expression classes \w and \s.
WordChars == {"a", "b", "c", "d", "e", "f", "g", "h", "i", "j", "k", "l", "m",
              "n", "o", "p", "q", "r", "s", "t", "u", "v", "w", "x", "y", "z",
              "A", "B", "C", "D", "E", "F", "G", "H", "I", "J", "K", "L", "M",
              "N", "O", "P", "Q", "R", "S", "T", "U", "V", "W", "X", "Y", "Z",
              "0", "1", "2", "3", "4", "5", "6", "7", "8", "9", "_"}
SpaceChars == {" ", "\t", "\n", "\r", "\f"}

\* String(x) as JavaScript's string concatenation coerces x.
ToText(x) == IF x = Undef THEN <<"u","n","d","e","f","i","n","e","d">>
             ELSE IF x = True THEN <<"t","r","u","e">> ELSE x

\* JavaScript truthiness of a text-or-undefined value.
Truthy(x) == x # Undef /\ x # <<>>

RECURSIVE Max(_)
Max(S) == IF S = {} THEN 0
          ELSE LET x == CHOOSE y \in S : TRUE
                   m == Max(S \ {x})
               IN IF x > m THEN x ELSE m

(***************************************************************************)
(* fqn.qualify (lib/config/fqn.js)                                         *)
(***************************************************************************)
prefix(text, name) == IF Truthy(text) THEN ToText(text) \o <<":">> \o ToText(name)
                      ELSE ToText(name)

suffix(text, name) == IF Truthy(text) THEN name \o <<":">> \o ToText(text) ELSE name

qualify(name, namespace, unique) ==
    IF name = <<>> THEN name ELSE suffix(unique, prefix(namespace, name))

(***************************************************************************)
(* Keyed collections are sequences of records with a key field, in the     *)
(* insertion order JavaScript iterates them in.                            *)
(***************************************************************************)
Keys(coll) == {coll[i].key : i \in 1..Len(coll)}

HasKey(coll, k) == \E i \in 1..Len(coll) : coll[i].key = k

Get(coll, k) == coll[CHOOSE i \in 1..Len(coll) : coll[i].key = k]

\* obj[k] = v: an existing key keeps its place, a new key goes last.
Put(coll, k, v) ==
    IF HasKey(coll, k)
    THEN [i \in 1..Len(coll) |-> IF coll[i].key = k THEN v ELSE coll[i]]
    ELSE Append(coll, v)

\* _.defaults on one field: the first value that is not undefined.
Dflt(a, b) == IF a # Undef THEN a ELSE b

\* parseBindingName: the leftmost match of the pattern
\*   source [\w:\.\-]+, white space, an optional group "[" white space keys .*
\*   white space "]", white space, "->", white space, destination [\w:\.\-]+
\* with the greedy choices a backtracking matcher makes: the longest source,
\* the bracket group when it can match, the longest keys.
IsW(c) == c \in WordChars \cup {":", ".", "-"}

\* The first position from i on that holds no white space (Len(s)+1 if none).
SkipS(s, i) ==
    CHOOSE j \in i..(Len(s) + 1) :
        /\ \A k \in i..(j - 1) : s[k] \in SpaceChars
        /\ (j = Len(s) + 1 \/ s[j] \notin SpaceChars)

\* The last position of the run of [\w:\.\-] that starts at i (i-1 if none).
WRunEnd(s, i) ==
    CHOOSE j \in (i - 1)..Len(s) :
        /\ \A k \in i..j : IsW(s[k])
        /\ (j = Len(s) \/ ~IsW(s[j + 1]))

\* \s*->\s*[\w:\.\-]+ matches from position i.
ArrowDest(s, i) ==
    LET j == SkipS(s, i)
    IN /\ j + 1 <= Len(s)
       /\ s[j] = "-"
       /\ s[j + 1] = ">"
       /\ LET d == SkipS(s, j + 2) IN d <= Len(s) /\ IsW(s[d])

DestOf(s, i) ==
    LET d == SkipS(s, SkipS(s, i) + 2) IN SubSeq(s, d, WRunEnd(s, d))

\* The positions of a "]" that closes a bracket group opened at j.
BracketEnds(s, j) ==
    {p \in SkipS(s, j + 1)..Len(s) : s[p] = "]" /\ ArrowDest(s, p + 1)}

\* The rest of the pattern matches after a source that ends at i-1.
TailOk(s, i) ==
    LET j == SkipS(s, i)
    IN \/ (j <= Len(s) /\ s[j] = "[" /\ BracketEnds(s, j) # {})
       \/ ArrowDest(s, i)

SourceEnds(s, st) == {e \in st..WRunEnd(s, st) : TailOk(s, e + 1)}

RECURSIVE Tokens(_, _)
\* keys.split(/[,\s]+/) without its empty strings; cur is the key being read.
Tokens(s, cur) ==
    IF s = <<>> THEN (IF cur = <<>> THEN <<>> ELSE <<cur>>)
    ELSE IF Head(s) \in SpaceChars \cup {","}
         THEN (IF cur = <<>> THEN <<>> ELSE <<cur>>) \o Tokens(Tail(s), <<>>)
         ELSE Tokens(Tail(s), Append(cur, Head(s)))

splitBindingKeys(keys) == IF Truthy(keys) THEN Tokens(keys, <<>>) ELSE Undef

parseBindingName(name) ==
    LET Starts == {st \in 1..Len(name) : SourceEnds(name, st) # {}}
    IN IF Starts = {}
       THEN [name |-> name, source |-> Undef, destination |-> Undef,
             bindingKeys |-> Undef]
       ELSE LET st == CHOOSE x \in Starts : \A y \in Starts : x <= y
                e == Max(SourceEnds(name, st))
                j == SkipS(name, e + 1)
                grp == j <= Len(name) /\ name[j] = "[" /\ BracketEnds(name, j) # {}
                p == Max(BracketEnds(name, j))
            IN [name |-> name,
                source |-> SubSeq(name, st, e),
                destination |-> DestOf(name, IF grp THEN p + 1 ELSE e + 1),
                bindingKeys |->
                    splitBindingKeys(IF grp
                                     THEN SubSeq(name, SkipS(name, j + 1), p - 1)
                                     ELSE Undef)]

(***************************************************************************)
(* configure (lib/config/configure.js).  A configuration is a record       *)
(*   [vhosts, publications, subscriptions, shovels, counters, defaults]    *)
(* whose collections hold the records below; a field the JavaScript object *)
(* does not have is Undef.  defaults holds the values of                   *)
(* rascalConfig.defaults (after the merge with the baseline) that the      *)
(* modelled fields take: the vhost namespace, the binding key, the vhost   *)
(* of a publication and of a subscription, the connection attributes and   *)
(* strategy of a vhost, and the counters.                                  *)
(*   vhost:        key name namespace exchanges queues bindings            *)
(*                 publications subscriptions connection connections       *)
(*                 connectionStrategy                                      *)
(*   exchange:     key name fullyQualifiedName                             *)
(*   queue:        key name fullyQualifiedName replyTo dlx                 *)
(*                 (dlx is options.arguments["x-dead-letter-exchange"])    *)
(*   binding:      key name source destination bindingKey bindingKeys      *)
(*                 qualifyBindingKeys                                      *)
(*   publication:  key name vhost exchange queue destination replyTo       *)
(*                 autoCreated                                             *)
(*   subscription: key name vhost queue source autoCreated                 *)
(*   shovel:       key name subscription publication                       *)
(*   counter:      key name type size                                      *)
(* An error is the text of its message; NoErr is no error.                 *)
(***************************************************************************)
NoErr == <<>>

TypeError == <<"TypeError">>

\* util.format(fmt, name) for a format that ends with %s.
format(fmt, name) == <<fmt>> \o ToText(name)

\* uuid(): a text of hexadecimal digits that differs for every call site
\* (path) of one configure call and with the seed of the call.
uuid(seed, path) == <<seed.hex>> \o path

DigitChar(i) == <<"0", "1", "2", "3", "4", "5", "6", "7", "8", "9">>[i + 1]

\* The elements of a sequence that satisfy no falsiness: _.compact.
RECURSIVE compact(_)
compact(xs) == IF xs = <<>> THEN <<>>
               ELSE (IF Truthy(Head(xs)) THEN <<Head(xs)>> ELSE <<>>)
                    \o compact(Tail(xs))

RECURSIVE uniqFrom(_, _)
uniqFrom(xs, seen) ==
    IF xs = <<>> THEN <<>>
    ELSE IF Head(xs) \in seen THEN uniqFrom(Tail(xs), seen)
         ELSE <<Head(xs)>> \o uniqFrom(Tail(xs), seen \cup {Head(xs)})

uniq(xs) == uniqFrom(xs, {})

\* What _.concat adds for an array-or-undefined argument.
ConcatArg(arr) == IF arr = Undef THEN <<Undef>> ELSE arr

Binding(key, bindingKey, bindingConfig, parsedConfig) ==
    [key |-> key,
     name |-> Dflt(bindingConfig.name, parsedConfig.name),
     source |-> Dflt(bindingConfig.source, parsedConfig.source),
     destination |-> Dflt(bindingConfig.destination, parsedConfig.destination),
     bindingKey |-> Dflt(bindingKey, bindingConfig.bindingKey),
     bindingKeys |-> Undef,
     qualifyBindingKeys |-> bindingConfig.qualifyBindingKeys]

RECURSIVE PutEach(_, _, _, _, _)
\* The inner _.each of expandBindings: one binding for each key.
PutEach(result, bindingKeys, i, bindingConfig, parsedConfig) ==
    IF i > Len(bindingKeys) THEN result
    ELSE LET key == bindingConfig.key \o <<":">> \o bindingKeys[i]
         IN PutEach(Put(result, key,
                        Binding(key, bindingKeys[i], bindingConfig, parsedConfig)),
                    bindingKeys, i + 1, bindingConfig, parsedConfig)

BindingKeysOfWithDuplicates(bindingConfig, parsedConfig) ==
    compact(ConcatArg(bindingConfig.bindingKeys)
            \o <<bindingConfig.bindingKey>>
            \o ConcatArg(parsedConfig.bindingKeys))

BindingKeysOf(bindingConfig, parsedConfig) ==
    uniq(compact(ConcatArg(bindingConfig.bindingKeys)
                 \o <<bindingConfig.bindingKey>>
                 \o ConcatArg(parsedConfig.bindingKeys)))

\* The two branches of expandBindings: one binding under the binding's own
\* name for at most one key, else one for each key.
expandKeys(result, bindingConfig, parsedConfig, bindingKeys) ==
    IF Len(bindingKeys) <= 1
    THEN Put(result, bindingConfig.key,
             Binding(bindingConfig.key,
                     IF bindingKeys = <<>> THEN Undef ELSE bindingKeys[1],
                     bindingConfig, parsedConfig))
    ELSE PutEach(result, bindingKeys, 1, bindingConfig, parsedConfig)

expandParsed(result, bindingConfig, parsedConfig) ==
    expandKeys(result, bindingConfig, parsedConfig,
               BindingKeysOf(bindingConfig, parsedConfig))

RECURSIVE expandFrom(_, _, _)
\* The outer _.each of expandBindings from the definition at position i on.
expandFrom(definitions, i, result) ==
    IF i > Len(definitions) THEN result
    ELSE expandFrom(definitions, i + 1,
                    expandParsed(result, definitions[i],
                                 parseBindingName(definitions[i].key)))

expandBindings(definitions) == expandFrom(definitions, 1, <<>>)

configureBinding(bindingConfig, namespace, defaults) ==
    LET b == [bindingConfig EXCEPT
                 !.bindingKey = Dflt(bindingConfig.bindingKey, defaults.bindingKey)]
    IN IF Truthy(b.qualifyBindingKeys)
       THEN [b EXCEPT !.bindingKey = qualify(b.bindingKey, namespace, Undef)]
       ELSE b

\* The _.each of configureBindings over the expanded bindings.
eachBinding(config, expanded, defaults) ==
    [config EXCEPT !.bindings =
        [i \in 1..Len(expanded) |->
            configureBinding(expanded[i], config.namespace, defaults)]]

configureBindings(config, defaults) ==
    eachBinding(config, expandBindings(config.bindings), defaults)

defaultExchange ==
    [key |-> <<>>, name |-> Undef, fullyQualifiedName |-> Undef]

configureExchange(exchangeConfig, namespace) ==
    [exchangeConfig EXCEPT
        !.name = Dflt(exchangeConfig.name, exchangeConfig.key),
        !.fullyQualifiedName =
            Dflt(exchangeConfig.fullyQualifiedName,
                 qualify(exchangeConfig.key, namespace, Undef))]

configureExchanges(config) ==
    LET exchanges == IF HasKey(config.exchanges, <<>>) THEN config.exchanges
                     ELSE Append(config.exchanges, defaultExchange)
    IN [config EXCEPT !.exchanges =
           [i \in 1..Len(exchanges) |->
               configureExchange(exchanges[i], config.namespace)]]

qualifyArguments(namespace, dlx) ==
    IF dlx # Undef THEN qualify(dlx, namespace, Undef) ELSE dlx

configureQueue(queueConfig, namespace, seed, path) ==
    LET replyTo == IF queueConfig.replyTo = True THEN uuid(seed, path)
                   ELSE queueConfig.replyTo
    IN [queueConfig EXCEPT
           !.replyTo = replyTo,
           !.dlx = qualifyArguments(namespace, queueConfig.dlx),
           !.name = Dflt(queueConfig.name, queueConfig.key),
           !.fullyQualifiedName =
               Dflt(queueConfig.fullyQualifiedName,
                    qualify(queueConfig.key, namespace, replyTo))]

configureQueues(config, seed, path) ==
    [config EXCEPT !.queues =
        [i \in 1..Len(config.queues) |->
            configureQueue(config.queues[i], config.namespace, seed,
                           path \o <<DigitChar(i)>>)]]

(***************************************************************************)
(* Connections.  An entry of connections, and the connection field, is a   *)
(* record                                                                  *)
(*   kind url protocol hostname port vhost options index                   *)
(* of kind "undefined" (no value), "string" (the URL text url) or "object".*)
(* options is undefined or the names of the options the object holds; the  *)
(* user, the password, the socket options and the management block of a    *)
(* connection are not modelled, nor is the query its options add to the    *)
(* URL.  Two objects are never the same object; two strings are the same   *)
(* when their texts are.                                                   *)
(***************************************************************************)
Connection(kind, url, hostname, port, options) ==
    [kind |-> kind, url |-> url, protocol |-> Undef, hostname |-> hostname,
     port |-> port, vhost |-> Undef, options |-> options, index |-> Undef]

NoConnection == Connection("undefined", Undef, Undef, Undef, Undef)

\* The first position from from on that holds c (Len(s)+1 if none).
FirstIndex(s, c, from) ==
    CHOOSE i \in from..(Len(s) + 1) :
        /\ \A k \in from..(i - 1) : s[k] # c
        /\ (i = Len(s) + 1 \/ s[i] = c)

NoAttributes(err) ==
    [err |-> err, protocol |-> Undef, hostname |-> Undef, port |-> Undef,
     vhost |-> Undef, options |-> Undef]

\* new URL(connectionString) for a text scheme ":" "//" host ":" port path:
\* protocol keeps its colon, pathname its slash; a text without a scheme
\* makes new URL throw a TypeError.
parseConnectionUrl(connectionString) ==
    IF ~Truthy(connectionString) THEN NoAttributes(NoErr)
    ELSE LET s == connectionString
             c == FirstIndex(s, ":", 1)
         IN IF c = 1 \/ c > Len(s) THEN NoAttributes(TypeError)
            ELSE LET slashes == /\ c + 2 <= Len(s)
                                /\ s[c + 1] = "/"
                                /\ s[c + 2] = "/"
                     a == IF slashes THEN c + 3 ELSE c + 1
                     e == IF slashes THEN FirstIndex(s, "/", a) ELSE a
                     authority == SubSeq(s, a, e - 1)
                     h == FirstIndex(authority, ":", 1)
                 IN [err |-> NoErr,
                     protocol |-> SubSeq(s, 1, c),
                     hostname |-> SubSeq(authority, 1, h - 1),
                     port |-> SubSeq(authority, h + 1, Len(authority)),
                     vhost |-> SubSeq(s, e, Len(s)),
                     options |-> <<>>]

\* _.defaultsDeep on the options objects: the names of all of them.
mergeOptions(a, b, c) ==
    IF a = Undef /\ b = Undef /\ c = Undef THEN Undef
    ELSE uniq((IF a = Undef THEN <<>> ELSE a)
              \o (IF b = Undef THEN <<>> ELSE b)
              \o (IF c = Undef THEN <<>> ELSE c))

\* _.defaultsDeep({}, attributesFromUrl, attributesFromConfig, defaults)
\* with defaults = { ...vhostConfig.defaults.connection, vhost: vhostName }.
connectionAttributes(fromUrl, fromConfig, defaults, vhostName) ==
    [kind |-> "object",
     url |-> Undef,
     protocol |-> Dflt(fromUrl.protocol, Dflt(fromConfig.protocol, defaults.protocol)),
     hostname |-> Dflt(fromUrl.hostname, Dflt(fromConfig.hostname, defaults.hostname)),
     port |-> Dflt(fromUrl.port, Dflt(fromConfig.port, defaults.port)),
     vhost |-> Dflt(fromUrl.vhost, Dflt(fromConfig.vhost, vhostName)),
     options |-> mergeOptions(fromUrl.options, fromConfig.options, defaults.options),
     index |-> Undef]

\* url.format({ slashes: true, ...connection, pathname }) without auth and
\* query.
setConnectionUrls(connection) ==
    LET protocol == ToText(connection.protocol)
        pathname == IF connection.vhost = <<"/">> THEN <<>> ELSE ToText(connection.vhost)
    IN [connection EXCEPT !.url =
           protocol
           \o (IF protocol # <<>> /\ protocol[Len(protocol)] = ":" THEN <<>> ELSE <<":">>)
           \o <<"/", "/">> \o ToText(connection.hostname)
           \o (IF Truthy(connection.port) THEN <<":">> \o connection.port ELSE <<>>)
           \o (IF pathname # <<>> /\ pathname[1] # "/" THEN <<"/">> ELSE <<>>)
           \o pathname]

\* `${connection.hostname}:${connection.port}`
HostPort(connection) ==
    ToText(connection.hostname) \o <<":">> \o ToText(connection.port)

\* getConnectionIndex on the cache connectionIndexes, a keyed collection of
\* [key, index]: [index, connectionIndexes].  Math.random() gives
\* seed.draws[k] when it is called for the k-th time in a configure call.
getConnectionIndexUncached(connectionIndexes, seed, hostname) ==
    [index |-> seed.draws[Len(connectionIndexes) + 1],
     connectionIndexes |->
         Append(connectionIndexes,
                [key |-> hostname,
                 index |-> seed.draws[Len(connectionIndexes) + 1]])]

getConnectionIndex(connectionIndexes, seed, hostname) ==
    IF HasKey(connectionIndexes, hostname)
    THEN [index |-> Get(connectionIndexes, hostname).index,
          connectionIndexes |-> connectionIndexes]
    ELSE getConnectionIndexUncached(connectionIndexes, seed, hostname)

\* setConnectionIndex: [index, connectionIndexes]; index counts from 0.
setConnectionIndex(connection, strategy, index, connectionIndexes, seed) ==
    IF strategy = <<"f", "i", "x", "e", "d">>
    THEN [index |-> index, connectionIndexes |-> connectionIndexes]
    ELSE getConnectionIndex(connectionIndexes, seed, HostPort(connection))

\* configureConnection for the entry at position i of connections:
\* [err, connection, connectionIndexes].  The argument of setConnectionUrls
\* reads vhostConfig.connection, which is this entry when the connection
\* field is an object and the entry is the last one, and else the field as
\* the caller gave it.
configureConnection(vhostConfig, connections, i, connectionIndexes, seed, defaults) ==
    LET attributesFromUrl == parseConnectionUrl(connections[i].url)
        attributes == connectionAttributes(attributesFromUrl, connections[i],
                                           defaults.connection, vhostConfig.key)
        own == IF vhostConfig.connection.kind = "object" /\ i = Len(connections)
               THEN attributes ELSE vhostConfig.connection
        indexed == setConnectionIndex(attributes, vhostConfig.connectionStrategy,
                                      i - 1, connectionIndexes, seed)
    IN IF attributesFromUrl.err # NoErr \/ own.kind # "object" \/ own.options = Undef
       THEN [err |-> TypeError, connection |-> connections[i],
             connectionIndexes |-> connectionIndexes]
       ELSE [err |-> NoErr,
             connection |-> [setConnectionUrls(attributes) EXCEPT
                                !.index = indexed.index],
             connectionIndexes |-> indexed.connectionIndexes]

RECURSIVE eachConnection(_, _, _, _, _, _)
afterConnection(r, vhostConfig, connections, i, seed, defaults) ==
    IF r.err # NoErr
    THEN [err |-> r.err, connections |-> connections,
          connectionIndexes |-> r.connectionIndexes]
    ELSE eachConnection(vhostConfig, [connections EXCEPT ![i] = r.connection],
                        i + 1, r.connectionIndexes, seed, defaults)

\* The _.each of configureConnections from the entry at position i on.
eachConnection(vhostConfig, connections, i, connectionIndexes, seed, defaults) ==
    IF i > Len(connections)
    THEN [err |-> NoErr, connections |-> connections,
          connectionIndexes |-> connectionIndexes]
    ELSE afterConnection(
             configureConnection(vhostConfig, connections, i, connectionIndexes,
                                 seed, defaults),
             vhostConfig, connections, i, seed, defaults)

RECURSIVE uniqConnections(_, _)
\* _.compact and _.uniq on the entries: no undefined, no empty string, one
\* entry for equal strings; seen holds the strings met.
uniqConnections(xs, seen) ==
    IF xs = <<>> THEN <<>>
    ELSE IF \/ Head(xs).kind = "undefined"
            \/ (Head(xs).kind = "string" /\ Head(xs).url \in seen \cup {<<>>})
         THEN uniqConnections(Tail(xs), seen)
         ELSE <<Head(xs)>>
              \o uniqConnections(Tail(xs),
                     IF Head(xs).kind = "string" THEN seen \cup {Head(xs).url}
                     ELSE seen)

RECURSIVE sortBy(_)
\* _.sortBy(connections, 'index'): a stable sort.
sortBy(xs) ==
    IF xs = <<>> THEN <<>>
    ELSE LET sorted == sortBy(SubSeq(xs, 1, Len(xs) - 1))
             x == xs[Len(xs)]
             k == Cardinality({i \in 1..Len(sorted) : sorted[i].index <= x.index})
         IN SubSeq(sorted, 1, k) \o <<x>> \o SubSeq(sorted, k + 1, Len(sorted))

\* The connections of configureConnections before they are configured.
connectionsOf(vhostConfig) ==
    LET given == uniqConnections(vhostConfig.connections
                                 \o <<vhostConfig.connection>>, {})
    IN IF given = <<>> THEN <<Connection("object", Undef, Undef, Undef, Undef)>>
       ELSE [i \in 1..Len(given) |->
                IF given[i].kind = "string"
                THEN Connection("object", given[i].url, Undef, Undef, Undef)
                ELSE given[i]]

\* What configureConnections leaves in the vhost after its _.each.
sortedConnections(r, vhostConfig) ==
    IF r.err # NoErr
    THEN [err |-> r.err, vhost |-> vhostConfig,
          connectionIndexes |-> r.connectionIndexes]
    ELSE [err |-> NoErr,
          vhost |-> [vhostConfig EXCEPT
                        !.connections =
                            [i \in 1..Len(r.connections) |->
                                [sortBy(r.connections)[i] EXCEPT !.index = Undef]],
                        !.connection = NoConnection],
          connectionIndexes |-> r.connectionIndexes]

\* configureConnections: [err, vhost, connectionIndexes].
configureConnections(vhostConfig, connectionIndexes, seed, defaults) ==
    sortedConnections(
        eachConnection(vhostConfig, connectionsOf(vhostConfig), 1,
                       connectionIndexes, seed, defaults),
        vhostConfig)

\* configureVhost: [err, vhost, connectionIndexes].
configureVhost(vhostConfig, defaults, seed, path, connectionIndexes) ==
    LET namespace == Dflt(vhostConfig.namespace, defaults.namespace)
    IN configureConnections(
           [vhostConfig EXCEPT
               !.name = Dflt(vhostConfig.name, vhostConfig.key),
               !.namespace = IF namespace = True THEN uuid(seed, path)
                             ELSE namespace,
               !.connectionStrategy = Dflt(vhostConfig.connectionStrategy,
                                           defaults.connectionStrategy)],
           connectionIndexes, seed, defaults)

\* rascalConfig.vhosts[name], for a name that may be undefined.
VhostExists(rascalConfig, name) == HasKey(rascalConfig.vhosts, ToText(name))

VhostOf(rascalConfig, name) == Get(rascalConfig.vhosts, ToText(name))

\* configurePublication: [err, cfg], cfg being rascalConfig as the call
\* leaves it.
configurePublication(rascalConfig, publicationConfig, name) ==
    IF Truthy(publicationConfig.destination)
    THEN [err |-> NoErr, cfg |-> rascalConfig]
    ELSE IF /\ HasKey(rascalConfig.publications, name)
            /\ Get(rascalConfig.publications, name).vhost # publicationConfig.vhost
    THEN [err |-> format("Duplicate publication: ", name), cfg |-> rascalConfig]
    ELSE
    LET p1 == [publicationConfig EXCEPT
                  !.key = name,
                  !.name = Dflt(publicationConfig.name, name),
                  !.vhost = Dflt(publicationConfig.vhost,
                                 rascalConfig.defaults.publicationVhost)]
        with(p) == [rascalConfig EXCEPT !.publications = Put(@, name, p)]
    IN IF ~VhostExists(rascalConfig, p1.vhost)
       THEN [err |-> NoErr, cfg |-> with(p1)]
       ELSE
       LET vhost == VhostOf(rascalConfig, p1.vhost)
           coll == IF p1.exchange # Undef THEN vhost.exchanges ELSE vhost.queues
           target == IF p1.exchange # Undef THEN p1.exchange ELSE ToText(p1.queue)
       IN IF ~HasKey(coll, target)
          THEN [err |-> TypeError, cfg |-> with(p1)]
          ELSE
          LET p2 == [p1 EXCEPT !.destination = Get(coll, target).fullyQualifiedName]
          IN IF ~Truthy(p2.replyTo)
             THEN [err |-> NoErr, cfg |-> with(p2)]
             ELSE IF ~HasKey(vhost.queues, p2.replyTo)
             THEN [err |-> <<"Publication: ">> \o ToText(name)
                            \o <<" refers to an unknown reply queue: ">>
                            \o p2.replyTo,
                   cfg |-> with(p2)]
             ELSE [err |-> NoErr,
                   cfg |-> with([p2 EXCEPT !.replyTo =
                                   Get(vhost.queues, p2.replyTo).fullyQualifiedName])]

configureSubscription(rascalConfig, subscriptionConfig, name) ==
    IF /\ HasKey(rascalConfig.subscriptions, name)
       /\ Get(rascalConfig.subscriptions, name).vhost # subscriptionConfig.vhost
    THEN [err |-> format("Duplicate subscription: ", name), cfg |-> rascalConfig]
    ELSE
    LET s1 == [subscriptionConfig EXCEPT
                  !.key = name,
                  !.name = Dflt(subscriptionConfig.name, name),
                  !.vhost = Dflt(subscriptionConfig.vhost,
                                 rascalConfig.defaults.subscriptionVhost)]
        with(x) == [rascalConfig EXCEPT !.subscriptions = Put(@, name, x)]
    IN IF ~VhostExists(rascalConfig, s1.vhost)
       THEN [err |-> NoErr, cfg |-> with(s1)]
       ELSE LET queues == VhostOf(rascalConfig, s1.vhost).queues
            IN IF ~HasKey(queues, ToText(s1.queue))
               THEN [err |-> TypeError, cfg |-> with(s1)]
               ELSE [err |-> NoErr,
                     cfg |-> with([s1 EXCEPT !.source =
                                 Get(queues, ToText(s1.queue)).fullyQualifiedName])]

RECURSIVE eachPublication(_, _, _)
nextPublication(r, items, i) ==
    IF r.err # NoErr THEN r ELSE eachPublication(r.cfg, items, i + 1)

\* _.each(items, configurePublication), ended by the first error thrown.
eachPublication(rascalConfig, items, i) ==
    IF i > Len(items) THEN [err |-> NoErr, cfg |-> rascalConfig]
    ELSE nextPublication(
             configurePublication(rascalConfig, items[i], items[i].key), items, i)

RECURSIVE eachSubscription(_, _, _)
nextSubscription(r, items, i) ==
    IF r.err # NoErr THEN r ELSE eachSubscription(r.cfg, items, i + 1)

eachSubscription(rascalConfig, items, i) ==
    IF i > Len(items) THEN [err |-> NoErr, cfg |-> rascalConfig]
    ELSE nextSubscription(
             configureSubscription(rascalConfig, items[i], items[i].key), items, i)

\* The value of a collection field the object does not have.
Absent == <<[absent |-> TRUE]>>

\* What _.each iterates: nothing for an absent collection.
Local(coll) == IF coll = Absent THEN <<>> ELSE coll

\* The vhost's own publications or subscriptions, each with vhost set to
\* the vhost's name.
OfVhost(vhostConfig, local) ==
    [i \in 1..Len(local) |-> [local[i] EXCEPT !.vhost = vhostConfig.name]]

\* delete vhostConfig.publications
deletePublications(r, v) == [r EXCEPT !.cfg.vhosts[v].publications = Absent]

\* delete vhostConfig.subscriptions
deleteSubscriptions(r, v) == [r EXCEPT !.cfg.vhosts[v].subscriptions = Absent]

\* configureVhostPublications for the vhost at position v.
configureVhostPublications(rascalConfig, v) ==
    deletePublications(
        eachPublication(rascalConfig,
            OfVhost(rascalConfig.vhosts[v],
                    Local(rascalConfig.vhosts[v].publications)), 1), v)

configureVhostSubscriptions(rascalConfig, v) ==
    deleteSubscriptions(
        eachSubscription(rascalConfig,
            OfVhost(rascalConfig.vhosts[v],
                    Local(rascalConfig.vhosts[v].subscriptions)), 1), v)

\* The name of the publication or subscription created for an entity.
AutoName(vhost, entity) ==
    IF vhost.name = <<"/">> THEN <<"/">> \o ToText(entity.name)
    ELSE ToText(vhost.name) \o <<"/">> \o ToText(entity.name)

Publication(key, vhost, exchange, queue) ==
    [key |-> key, name |-> Undef, vhost |-> vhost, exchange |-> exchange,
     queue |-> queue, destination |-> Undef, replyTo |-> Undef,
     autoCreated |-> True]

Subscription(key, vhost, queue) ==
    [key |-> key, name |-> Undef, vhost |-> vhost, queue |-> queue,
     source |-> Undef, autoCreated |-> True]

RECURSIVE exchangePublications(_, _, _, _)
exchangePublications(publications, vhost, exchanges, i) ==
    IF i > Len(exchanges) THEN publications
    ELSE LET name == AutoName(vhost, exchanges[i])
         IN exchangePublications(
                Put(publications, name,
                    Publication(name, vhost.name, exchanges[i].name, Undef)),
                vhost, exchanges, i + 1)

RECURSIVE queuePublications(_, _, _, _)
queuePublications(publications, vhost, queues, i) ==
    IF i > Len(queues) THEN publications
    ELSE LET name == AutoName(vhost, queues[i])
         IN queuePublications(
                Put(publications, name,
                    Publication(name, vhost.name, Undef, queues[i].name)),
                vhost, queues, i + 1)

RECURSIVE defaultPublications(_, _, _)
defaultPublications(publications, vhosts, v) ==
    IF v > Len(vhosts) THEN publications
    ELSE defaultPublications(
             queuePublications(
                 exchangePublications(publications, vhosts[v],
                                      vhosts[v].exchanges, 1),
                 vhosts[v], vhosts[v].queues, 1),
             vhosts, v + 1)

RECURSIVE queueSubscriptions(_, _, _, _)
queueSubscriptions(subscriptions, vhost, queues, i) ==
    IF i > Len(queues) THEN subscriptions
    ELSE LET name == AutoName(vhost, queues[i])
         IN queueSubscriptions(
                Put(subscriptions, name,
                    Subscription(name, vhost.name, queues[i].name)),
                vhost, queues, i + 1)

RECURSIVE defaultSubscriptions(_, _, _)
defaultSubscriptions(subscriptions, vhosts, v) ==
    IF v > Len(vhosts) THEN subscriptions
    ELSE defaultSubscriptions(
             queueSubscriptions(subscriptions, vhosts[v], vhosts[v].queues, 1),
             vhosts, v + 1)

\* _.defaults({}, own, created): own, then the created ones own does not hold.
defaults(own, created) ==
    own \o SelectSeq(created, LAMBDA x : ~HasKey(own, x.key))

configurePublications(rascalConfig) ==
    eachPublication(rascalConfig,
        defaults(rascalConfig.publications,
                 defaultPublications(<<>>, rascalConfig.vhosts, 1)), 1)

configureSubscriptions(rascalConfig) ==
    eachSubscription(rascalConfig,
        defaults(rascalConfig.subscriptions,
                 defaultSubscriptions(<<>>, rascalConfig.vhosts, 1)), 1)

\* A result of configure with the cache of the call: [err, cfg,
\* connectionIndexes].
Indexed(r, connectionIndexes) ==
    [err |-> r.err, cfg |-> r.cfg, connectionIndexes |-> connectionIndexes]

RECURSIVE configureVhosts(_, _, _, _)
\* The _.each of configureVhosts from the vhost at position v on.
\* configureVhost and the configure functions it calls one after the other
\* on the vhost at position v; an error one of them throws ends configure.
afterVhostSubscriptions(q, v, seed, connectionIndexes) ==
    IF q.err # NoErr THEN Indexed(q, connectionIndexes)
    ELSE configureVhosts(q.cfg, v + 1, seed, connectionIndexes)

afterVhostPublications(p, v, seed, connectionIndexes) ==
    IF p.err # NoErr THEN Indexed(p, connectionIndexes)
    ELSE afterVhostSubscriptions(configureVhostSubscriptions(p.cfg, v), v, seed,
                                 connectionIndexes)

afterVhost(c, rascalConfig, v, seed) ==
    IF c.err # NoErr
    THEN [err |-> c.err, cfg |-> rascalConfig,
          connectionIndexes |-> c.connectionIndexes]
    ELSE afterVhostPublications(
             configureVhostPublications(
                 [rascalConfig EXCEPT !.vhosts[v] =
                     configureBindings(
                         configureQueues(configureExchanges(c.vhost),
                                         seed, <<DigitChar(v)>>),
                         rascalConfig.defaults)], v),
             v, seed, c.connectionIndexes)

configureVhosts(rascalConfig, v, seed, connectionIndexes) ==
    IF v > Len(rascalConfig.vhosts)
    THEN [err |-> NoErr, cfg |-> rascalConfig,
          connectionIndexes |-> connectionIndexes]
    ELSE afterVhost(configureVhost(rascalConfig.vhosts[v], rascalConfig.defaults,
                                   seed, <<DigitChar(v)>>, connectionIndexes),
                    rascalConfig, v, seed)

\* parseShovelName: the leftmost match of the pattern
\*   subscription [\w:]+, white space, "->", white space, publication [\w:]+
IsShovelChar(c) == c \in WordChars \cup {":"}

\* The last position of the run of [\w:] that starts at i (i-1 if none).
ShovelRunEnd(s, i) ==
    CHOOSE j \in (i - 1)..Len(s) :
        /\ \A k \in i..j : IsShovelChar(s[k])
        /\ (j = Len(s) \/ ~IsShovelChar(s[j + 1]))

\* The position of the publication when \s*->\s*[\w:]+ matches from i, else 0.
ShovelArrow(s, i) ==
    LET j == SkipS(s, i)
        d == IF j + 2 <= Len(s) THEN SkipS(s, j + 2) ELSE Len(s) + 1
    IN IF /\ j + 2 <= Len(s)
          /\ s[j] = "-"
          /\ s[j + 1] = ">"
          /\ d <= Len(s)
          /\ IsShovelChar(s[d])
       THEN d ELSE 0

parseShovelName(name) ==
    LET Starts == {st \in 1..Len(name) :
                      /\ IsShovelChar(name[st])
                      /\ \E e \in st..ShovelRunEnd(name, st) :
                             ShovelArrow(name, e + 1) # 0}
    IN IF Starts = {}
       THEN [name |-> name, subscription |-> Undef, publication |-> Undef]
       ELSE LET st == CHOOSE x \in Starts : \A y \in Starts : x <= y
                e == Max({x \in st..ShovelRunEnd(name, st) :
                             ShovelArrow(name, x + 1) # 0})
                d == ShovelArrow(name, e + 1)
            IN [name |-> name,
                subscription |-> SubSeq(name, st, e),
                publication |-> SubSeq(name, d, ShovelRunEnd(name, d))]

\* A shovel is [key, name, subscription, publication].
configureShovel(shovelConfig, name) ==
    [shovelConfig EXCEPT
        !.name = Dflt(shovelConfig.name, name),
        !.subscription = Dflt(shovelConfig.subscription,
                              parseShovelName(name).subscription),
        !.publication = Dflt(shovelConfig.publication,
                             parseShovelName(name).publication)]

configureShovels(rascalConfig) ==
    [rascalConfig EXCEPT !.shovels =
        [i \in 1..Len(rascalConfig.shovels) |->
            configureShovel(rascalConfig.shovels[i], rascalConfig.shovels[i].key)]]

\* A counter is [key, name, type, size]; size stands for what
\* defaults.redeliveries.counters[type] holds, a keyed collection of
\* [key, size].
configureCounter(counterConfig, name, rascalConfig) ==
    LET counterType == IF Truthy(counterConfig.type) THEN counterConfig.type
                       ELSE name
        counterDefaults == IF HasKey(rascalConfig.defaults.counters, counterType)
                           THEN Get(rascalConfig.defaults.counters, counterType).size
                           ELSE Undef
    IN [counterConfig EXCEPT
           !.name = Dflt(counterConfig.name, name),
           !.type = Dflt(counterConfig.type, name),
           !.size = Dflt(counterConfig.size, counterDefaults)]

configureCounters(rascalConfig) ==
    [rascalConfig EXCEPT !.counters =
        [i \in 1..Len(rascalConfig.counters) |->
            configureCounter(rascalConfig.counters[i],
                             rascalConfig.counters[i].key, rascalConfig)]]

\* configureShovels and configureCounters, which throw nothing.
afterSubscriptions(s) ==
    IF s.err # NoErr THEN s
    ELSE [err |-> NoErr, cfg |-> configureCounters(configureShovels(s.cfg))]

afterPublications(p) ==
    IF p.err # NoErr THEN p
    ELSE afterSubscriptions(configureSubscriptions(p.cfg))

afterVhosts(v) ==
    IF v.err # NoErr THEN v
    ELSE Indexed(afterPublications(configurePublications(v.cfg)),
                 v.connectionIndexes)

\* configure(rascalConfig, next): next(err) or next(null, rascalConfig);
\* connectionIndexes starts empty in every call.
configure(rascalConfig, seed) ==
    afterVhosts(configureVhosts(rascalConfig, 1, seed, <<>>))

(***************************************************************************)
(* The configurations configure is applied to: one or two vhosts, "v1"     *)
(* with an exchange, a queue and a binding, and publications declared in   *)
(* the vhosts and at the root.                                             *)
(***************************************************************************)
RawExchange(key) == [key |-> key, name |-> Undef, fullyQualifiedName |-> Undef]

RawQueue(key, replyTo, dlx) ==
    [key |-> key, name |-> Undef, fullyQualifiedName |-> Undef,
     replyTo |-> replyTo, dlx |-> dlx]

RawBinding(key, bindingKey, bindingKeys, qualifyBindingKeys) ==
    [key |-> key, name |-> Undef, source |-> <<"e", "1">>,
     destination |-> <<"q", "1">>, bindingKey |-> bindingKey,
     bindingKeys |-> bindingKeys, qualifyBindingKeys |-> qualifyBindingKeys]

RawPublication(key, vhost, exchange, queue, replyTo) ==
    [key |-> key, name |-> Undef, vhost |-> vhost, exchange |-> exchange,
     queue |-> queue, destination |-> Undef, replyTo |-> replyTo,
     autoCreated |-> Undef]

RawSubscription(key, vhost, queue) ==
    [key |-> key, name |-> Undef, vhost |-> vhost, queue |-> queue,
     source |-> Undef, autoCreated |-> Undef]

RawVhost(key, namespace, queues, bindings, publications, subscriptions) ==
    [key |-> key, name |-> Undef, namespace |-> namespace,
     exchanges |-> <<RawExchange(<<"e", "1">>)>>, queues |-> queues,
     bindings |-> bindings, publications |-> publications,
     subscriptions |-> subscriptions,
     connection |-> Connection("object", Undef, Undef, Undef, Undef),
     connections |-> <<>>, connectionStrategy |-> Undef]

Namespaces == {Undef, <<"n">>, True}

BindingNames == {<<"b", "1">>,
                 <<"e", "1", "-", ">", "q", "1">>,
                 <<"e", "1", "[", "k", "1", "]", "-", ">", "q", "1">>,
                 <<"e", "1", "[", " ", "k", "1", ",", " ", "k", "2", " ", "]",
                   "-", ">", " ", "q", "1">>}

BindingKeyChoices == {Undef, <<"k", "1">>}

BindingKeysChoices == {Undef, << <<"k", "1">>, <<"k", "3">> >>}

RawBindings ==
    {RawBinding(k, bk, bks, qbk) :
        k \in BindingNames, bk \in BindingKeyChoices,
        bks \in BindingKeysChoices, qbk \in {Undef, True}}

\* The queue "q1" with and without a replyTo and a dead letter exchange,
\* and a queue with the name of the exchange, "e1".
RawQueues ==
    {RawQueue(<<"q", "1">>, r, d) : r \in {Undef, True}, d \in {Undef, <<"d", "1">>}}
    \cup {RawQueue(<<"e", "1">>, Undef, Undef)}

\* The publications a vhost declares: none, to its exchange, to its queue
\* with replies to the queue, to the default exchange with replies.
LocalPublications ==
    {<<>>,
     <<RawPublication(<<"p", "1">>, Undef, <<"e", "1">>, Undef, Undef)>>,
     <<RawPublication(<<"p", "1">>, Undef, Undef, <<"q", "1">>, <<"q", "1">>)>>,
     <<RawPublication(<<"p", "1">>, Undef, <<>>, Undef, <<"q", "1">>)>>}

LocalSubscriptions ==
    {<<>>, <<RawSubscription(<<"s", "1">>, Undef, <<"q", "1">>)>>}

\* The publications declared at the root: none, one of "v1", one of "v2"
\* with the name of a local one, one of "v1" with replies to its queue that
\* carries a destination already.
RootPublications ==
    {<<>>,
     <<RawPublication(<<"p", "2">>, <<"v", "1">>, <<"e", "1">>, Undef, Undef)>>,
     <<RawPublication(<<"p", "1">>, <<"v", "2">>, <<"e", "1">>, Undef, Undef)>>,
     <<[RawPublication(<<"p", "2">>, <<"v", "1">>, <<"e", "1">>, Undef,
                       <<"q", "1">>) EXCEPT !.destination = <<"x">>]>>}

\* A second vhost: none, or "v2" with the publication and subscription
\* names of the first.
SecondVhost ==
    <<RawVhost(<<"v", "2">>, Undef, <<RawQueue(<<"q", "1">>, Undef, Undef)>>, <<>>,
               <<RawPublication(<<"p", "1">>, Undef, <<"e", "1">>, Undef, Undef)>>,
               <<RawSubscription(<<"s", "1">>, Undef, <<"q", "1">>)>>)>>

\* "v2" with its publication carrying a destination already.
SecondVhostWithDestination ==
    <<[SecondVhost[1] EXCEPT
          !.publications[1].destination = <<"e", "1">>,
          !.subscriptions = <<>>]>>

SecondVhosts == {<<>>, SecondVhost, SecondVhostWithDestination}

\* defaults.vhosts.connection and defaults.vhosts.connectionStrategy.
DefaultConnection ==
    [protocol |-> <<"a", "m", "q", "p">>, hostname |-> <<"h", "0">>,
     port |-> <<"1">>, vhost |-> Undef, options |-> <<"heartbeat">>]

Random == <<"r", "a", "n", "d", "o", "m">>

Fixed == <<"f", "i", "x", "e", "d">>

\* defaults.redeliveries.counters
DefaultCounters ==
    <<[key |-> <<"s", "t", "u", "b">>, size |-> Undef],
      [key |-> <<"i", "n", "M", "e", "m", "o", "r", "y">>, size |-> <<"9">>]>>

VhostDefaults(bindingKey) ==
    [namespace |-> Undef, bindingKey |-> bindingKey,
     publicationVhost |-> <<"v", "1">>, subscriptionVhost |-> <<"v", "1">>,
     connection |-> DefaultConnection, connectionStrategy |-> Random,
     counters |-> DefaultCounters]

RawShovel(key) ==
    [key |-> key, name |-> Undef, subscription |-> Undef, publication |-> Undef]

RawCounter(key, type) ==
    [key |-> key, name |-> Undef, type |-> type, size |-> Undef]

\* The shovel "s1 -> p1", and the counters stub and a second one in memory.
Shovels == <<RawShovel(<<"s", "1", " ", "-", ">", " ", "p", "1">>)>>

Counters ==
    <<RawCounter(<<"s", "t", "u", "b">>, Undef),
      RawCounter(<<"c", "2">>, <<"i", "n", "M", "e", "m", "o", "r", "y">>)>>

Defaults == {VhostDefaults(bk) : bk \in {Undef, <<"#">>}}

\* A configuration of vhost "v1" and, in second, of vhost "v2".
RascalConfig(ns, q, b, lp, ls, rp, second, d) ==
    [vhosts |-> <<RawVhost(<<"v", "1">>, ns, <<q>>, <<b>>, lp, ls)>> \o second,
     publications |-> rp, subscriptions |-> <<>>, shovels |-> Shovels,
     counters |-> Counters, defaults |-> d]

\* The connections of a vhost, as [connection, connections]: the object {}
\* alone; none at all; a URL alone; an object with options after two
\* hosts, after the same two the other way round, and after the same URL
\* twice and a host; an object without options after a host.
Host(hostname) == Connection("object", Undef, hostname, Undef, Undef)

Url == <<"a", ":", "/", "/", "h", "1", ":", "1", "/", "v", "1">>

Connections(connection, connections) ==
    [connection |-> connection, connections |-> connections]

ConnectionChoices ==
    {Connections(Host(Undef), <<>>),
     Connections(NoConnection, <<>>),
     Connections(Connection("string", Url, Undef, Undef, Undef), <<>>),
     Connections(Connection("object", Undef, Undef, Undef, <<"noDelay">>),
                 <<Host(<<"h", "1">>), Host(<<"h", "2">>)>>),
     Connections(Connection("object", Undef, Undef, Undef, <<"noDelay">>),
                 <<Host(<<"h", "2">>), Host(<<"h", "1">>)>>),
     Connections(Connection("object", Undef, Undef, Undef, <<"noDelay">>),
                 <<Connection("string", Url, Undef, Undef, Undef),
                   Connection("string", Url, Undef, Undef, Undef),
                   Host(<<"h", "2">>)>>),
     Connections(Host(Undef), <<Host(<<"h", "1">>)>>)}

Strategies == {Undef, Fixed}

\* The vhost with the connections c and the connection strategy.
Connected(vhost, c, strategy) ==
    [vhost EXCEPT !.connection = c.connection, !.connections = c.connections,
                  !.connectionStrategy = strategy]

PlainQueue == RawQueue(<<"q", "1">>, Undef, Undef)

PlainBinding == RawBinding(<<"b", "1">>, Undef, Undef, Undef)

\* The configurations configure is applied to: every binding, every queue
\* with every publication, every combination of publications and vhosts,
\* each in every namespace; and one or two vhosts with every choice of
\* connections.
RascalConfigs ==
    {RascalConfig(ns, PlainQueue, b, <<>>, <<>>, <<>>, <<>>, d) :
        ns \in Namespaces, b \in RawBindings, d \in Defaults}
    \cup {RascalConfig(ns, q, PlainBinding, lp, ls, <<>>, <<>>, d) :
        ns \in Namespaces, q \in RawQueues, lp \in LocalPublications,
        ls \in LocalSubscriptions, d \in Defaults}
    \cup {RascalConfig(ns, PlainQueue, PlainBinding, lp, ls, rp, second, d) :
        ns \in Namespaces, lp \in LocalPublications, ls \in LocalSubscriptions,
        rp \in RootPublications, second \in SecondVhosts, d \in Defaults}
    \cup {[RascalConfig(Undef, PlainQueue, PlainBinding, <<>>, <<>>, <<>>,
                        second, d) EXCEPT
              !.vhosts = [v \in 1..Len(@) |->
                             Connected(@[v], IF v = 1 THEN c1 ELSE c2, strategy)]] :
        c1 \in ConnectionChoices, c2 \in ConnectionChoices,
        strategy \in Strategies, second \in {<<>>, SecondVhost},
        d \in {VhostDefaults(Undef)}}

\* The numbers Math.random() gives in one configure call, one after the
\* other; no two of them are equal.
MaxDraws == 6

Draws == {[k \in 1..MaxDraws |-> k], [k \in 1..MaxDraws |-> MaxDraws + 1 - k]}

\* What one configure call draws: the digit of its uuids, and its random
\* numbers.
Seeds == {[hex |-> h, draws |-> d] : h \in {"a", "f"}, d \in Draws}

(***************************************************************************)
(* validate (lib/config/validate.js): the rules of the validator that the  *)
(* modelled fields decide.  Every publication names an existing vhost and  *)
(* exactly one of exchange and queue; every subscription names an existing *)
(* vhost and a queue of it.                                                *)
(***************************************************************************)
ValidationError == <<"ValidationError">>

validPublication(rascalConfig, p) ==
    /\ VhostExists(rascalConfig, p.vhost)
    /\ (p.exchange # Undef) # (p.queue # Undef)

validSubscription(rascalConfig, x) ==
    /\ VhostExists(rascalConfig, x.vhost)
    /\ HasKey(VhostOf(rascalConfig, x.vhost).queues, ToText(x.queue))

validate(rascalConfig) ==
    IF /\ \A i \in 1..Len(rascalConfig.publications) :
              validPublication(rascalConfig, rascalConfig.publications[i])
       /\ \A i \in 1..Len(rascalConfig.subscriptions) :
              validSubscription(rascalConfig, rascalConfig.subscriptions[i])
    THEN [err |-> NoErr, cfg |-> rascalConfig]
    ELSE [err |-> ValidationError, cfg |-> rascalConfig]

(***************************************************************************)
(* async.compose(f1, ..., fn) runs fn first and f1 last, each on the       *)
(* result of the one before, and ends with the first error.                *)
(***************************************************************************)
RECURSIVE Reverse(_)
Reverse(xs) == IF xs = <<>> THEN <<>> ELSE Append(Reverse(Tail(xs)), Head(xs))

composeLeftToRight(fns) == fns

compose(fns) == Reverse(fns)

preflight == compose(<<"validate", "configure">>)

init == compose(<<"initShovels", "initSubscriptions", "initPublications",
                  "initCounters", "initVhosts">>)

nukeVhost == compose(<<"deleteVhost", "shutdownVhost", "nukeVhost">>)

purgeVhost == <<"purgeVhost">>

shutdownVhost == <<"shutdownVhost">>

bounceVhost == <<"bounceVhost">>

\* One function of the preflight composition applied to a configuration.
Apply(fn, rascalConfig, seed) ==
    IF fn = "configure" THEN configure(rascalConfig, seed)
    ELSE validate(rascalConfig)

RECURSIVE RunPreflight(_, _, _, _)
\* What the composition does with the result r of its first function.
Applied(r, fns, rascalConfig, seed, ran) ==
    IF r.err # NoErr
    THEN [err |-> r.err, cfg |-> rascalConfig, ran |-> Append(ran, Head(fns))]
    ELSE RunPreflight(Tail(fns), r.cfg, seed, Append(ran, Head(fns)))

\* [err, cfg, ran]: ran lists the functions that ran.
RunPreflight(fns, rascalConfig, seed, ran) ==
    IF fns = <<>> THEN [err |-> NoErr, cfg |-> rascalConfig, ran |-> ran]
    ELSE Applied(Apply(Head(fns), rascalConfig, seed), fns, rascalConfig, seed, ran)

(***************************************************************************)
(* The broker (lib/amqp/Broker.js).                                        *)
(***************************************************************************)
VARIABLES
    callerConfig,   \* the configuration object the caller of create holds
    created,        \* what create did: [called, ran, callbacks]
    config,         \* this.config
    vhosts,         \* the keys of the live vhosts, in insertion order
    publications,   \* the keys of the live publications
    subscriptions,  \* the keys of the live subscriptions
    sessions,       \* the live session list
    keepActive,     \* "unset", "active" or "cleared"
    initRun,        \* the init composition: [started, completed, err, pc]
    subscribed,     \* the number of sessions created
    calls,          \* the bag of the calls of the asynchronous verbs under way
    last,           \* the call the last step ended and what it did
    succeeded,      \* which of shutdown and nuke have called back without error
    cpc,            \* the configure runs: "input", "once", "twice", "again"
                    \* or "off"
    configured,     \* the result of configure on callerConfig
    reconfigured    \* the result of the second configure: on that result
                    \* ("twice") or on callerConfig ("again")

vars == <<callerConfig, created, config, vhosts, publications, subscriptions,
          sessions, keepActive, initRun, subscribed, calls, last,
          succeeded, cpc, configured, reconfigured>>

configureVars == <<cpc, configured, reconfigured>>

\* The calls under way at once, the sessions created, the longest deferral.
MaxCalls == 2
MaxSessions == 2
MaxDefer == 1

NoConfig == [vhosts |-> <<>>, publications |-> <<>>, subscriptions |-> <<>>,
             shovels |-> <<>>, counters |-> <<>>,
             defaults |-> [namespace |-> Undef, bindingKey |-> Undef,
                           publicationVhost |-> Undef,
                           subscriptionVhost |-> Undef]]

NoResult == [err |-> NoErr, cfg |-> NoConfig, connectionIndexes |-> <<>>]

\* What a call of a verb with a name did: the calls of its callback as
\* [err, result], the error it threw, whether it invoked the entity it
\* looked up, and for an asynchronous verb the call as it ended.
Did(verb, name, callbacks, thrown, invoked) ==
    [verb |-> verb, name |-> name, callbacks |-> callbacks, thrown |-> thrown,
     invoked |-> invoked, call |-> <<>>]

\* The step ended no call.
NoLast == Did("none", Undef, <<>>, NoErr, FALSE)

\* next(err), and next(null, result) with the sessions it is given.
Args(err, result) == [err |-> err, result |-> result]

\* The keys of a collection in iteration order: Object.keys, _.values.
KeySeq(coll) == [i \in 1..Len(coll) |-> coll[i].key]

InSeq(x, xs) == \E i \in 1..Len(xs) : xs[i] = x

\* _.cloneDeep: the object a reference denotes is "caller" for the caller's
\* object and "clone" for the copy.
cloneDeepShared(ref) == ref

cloneDeep(ref) == "clone"

BrokerInit ==
    /\ created = [called |-> FALSE, ran |-> <<>>, callbacks |-> <<>>]
    /\ config = NoConfig
    /\ vhosts = <<>>
    /\ publications = <<>>
    /\ subscriptions = <<>>
    /\ sessions = <<>>
    /\ keepActive = "unset"
    /\ initRun = [started |-> <<>>, completed |-> <<>>, err |-> NoErr, pc |-> "idle"]
    /\ subscribed = 0
    /\ calls = EmptyBag
    /\ last = NoLast
    /\ succeeded = {}

\* this._addVhost, this._addPublication, this._addSubscription: map[name] = it.
add(map, name) == IF InSeq(name, map) THEN map ELSE Append(map, name)

RECURSIVE addAll(_, _, _)
addAll(map, coll, i) ==
    IF i > Len(coll) THEN map ELSE addAll(add(map, coll[i].name), coll, i + 1)

\* The callback create gives preflight, called with the result r of
\* preflight on the object target.
Preflighted(r, target) ==
    /\ callerConfig' = IF target = "caller" THEN r.cfg ELSE callerConfig
    /\ IF r.err # NoErr
       THEN /\ created' = [called |-> TRUE, ran |-> r.ran,
                           callbacks |-> <<[err |-> r.err]>>]
            /\ UNCHANGED <<config, initRun>>
       ELSE /\ created' = [called |-> TRUE, ran |-> r.ran, callbacks |-> <<>>]
            /\ config' = r.cfg
            /\ initRun' = [started |-> <<init[1]>>, completed |-> <<>>,
                           err |-> NoErr, pc |-> "running"]

\* create(config, components, next)
Create(seed) ==
    /\ cpc = "off"
    /\ ~created.called
    /\ Preflighted(RunPreflight(preflight, callerConfig, seed, <<>>),
                   cloneDeep("caller"))
    /\ vhosts' = <<>>
    /\ publications' = <<>>
    /\ subscriptions' = <<>>
    /\ sessions' = <<>>
    /\ last' = NoLast
    /\ UNCHANGED <<keepActive, subscribed, calls, succeeded, configureVars>>

\* What a task of the init composition that succeeds adds to the broker.
TaskEffect(task) ==
    /\ vhosts' = IF task = "initVhosts" THEN addAll(vhosts, config.vhosts, 1)
                 ELSE vhosts
    /\ publications' = IF task = "initPublications"
                       THEN addAll(publications, config.publications, 1)
                       ELSE publications
    /\ subscriptions' = IF task = "initSubscriptions"
                        THEN addAll(subscriptions, config.subscriptions, 1)
                        ELSE subscriptions

\* The running task of init calls back: with an error, or without one, and
\* then the next task starts or, after the last one, init calls back.
InitTaskDone(ok) ==
    /\ initRun.pc = "running"
    /\ LET task == initRun.started[Len(initRun.started)]
           completed == Append(initRun.completed, task)
       IN IF ok
          THEN /\ TaskEffect(task)
               /\ IF Len(completed) < Len(init)
                  THEN /\ initRun' = [initRun EXCEPT
                               !.completed = completed,
                               !.started = Append(@, init[Len(completed) + 1])]
                       /\ UNCHANGED keepActive
                  ELSE /\ initRun' = [initRun EXCEPT !.completed = completed,
                                                     !.pc = "callback"]
                       /\ keepActive' = "active"
          ELSE /\ initRun' = [initRun EXCEPT !.err = <<"InitError">>,
                                             !.pc = "callback"]
               /\ keepActive' = "active"
               /\ UNCHANGED <<vhosts, publications, subscriptions>>
    /\ last' = NoLast
    /\ UNCHANGED <<callerConfig, created, config, sessions, subscribed,
                   calls, succeeded, configureVars>>

\* The setImmediate of _init: next(err, self).
InitCallback ==
    /\ initRun.pc = "callback"
    /\ initRun' = [initRun EXCEPT !.pc = "ready"]
    /\ created' = [created EXCEPT !.callbacks = Append(@, [err |-> initRun.err])]
    /\ UNCHANGED <<callerConfig, config, vhosts, publications, subscriptions,
                   sessions, keepActive, subscribed, calls, last,
                   succeeded, configureVars>>

\* The broker create handed over: its verbs are called once create has
\* called back without error.
Ready == initRun.pc = "ready" /\ initRun.err = NoErr

(***************************************************************************)
(* The asynchronous verbs.  A call under way is a record                   *)
(*   verb       the verb called                                            *)
(*   pc         "cancel": a session's cancel is awaited; "defer": the      *)
(*              close channel timer runs; "vhost": a vhost task runs;      *)
(*              "subscribe": a subscription's subscribe is awaited         *)
(*   snapshot   sessions.slice() of unsubscribeAll, idx the place in it    *)
(*   timeout    the timeout of unsubscribeAll, waited the time the timer   *)
(*              has run                                                    *)
(*   requested  the sessions whose cancel the call requested, acked those  *)
(*              whose cancel called back without error                     *)
(*   vlist      _.values(vhosts) of the verb, vidx the place in it, vstep  *)
(*              the place in the vhost's composition of tasks, ops the     *)
(*              tasks that completed as <<vhost, task>>                    *)
(*   filter     the filter of subscribeAll, todo the subscriptions of      *)
(*              subscribe or subscribeAll, sidx the place in it, attempted *)
(*              the subscriptions whose subscribe was called, results the  *)
(*              sessions obtained                                          *)
(*   shifted    whether sessions.shift() took a session off the live list  *)
(*              since the call started                                     *)
(* When its callback is called the call leaves calls and last records it. *)
(***************************************************************************)
NewCall(verb) ==
    [verb |-> verb, pc |-> "new", snapshot |-> <<>>, idx |-> 0, timeout |-> 0,
     waited |-> 0, requested |-> <<>>, acked |-> <<>>, vlist |-> <<>>,
     vidx |-> 0, vstep |-> 0, ops |-> <<>>, filter |-> {}, todo |-> <<>>,
     sidx |-> 0, attempted |-> <<>>, results |-> <<>>, shifted |-> FALSE]

CancelError == <<"CancelError">>
VhostError == <<"VhostError">>
SubscribeError == <<"SubscribeError">>

\* A session: the number it was created as and the deferCloseChannel of
\* its configuration.
Session(id, defer) == [id |-> id, deferCloseChannel |-> defer]

\* session._maxDeferCloseChannel(other) (lib/amqp/SubscriberSession.js)
maxDeferCloseChannel(session, other) ==
    IF session.deferCloseChannel > other THEN session.deferCloseChannel ELSE other

RECURSIVE reduce(_, _)
\* list.reduce(function(value, session) {...}, value)
reduce(list, value) ==
    IF list = <<>> THEN value
    ELSE reduce(Tail(list), maxDeferCloseChannel(Head(list), value))

\* The deferral of the first session alone.
getMaxDeferCloseChannelTimeoutFirst ==
    IF sessions = <<>> THEN 0 ELSE sessions[1].deferCloseChannel

getMaxDeferCloseChannelTimeout == reduce(sessions, 0)

\* sessions.shift()
shift(list) == IF list = <<>> THEN list ELSE Tail(list)

\* The calls cs with call added, and without call.
With(cs, call) == cs (+) SetToBag({call})

Without(cs, call) == cs (-) SetToBag({call})

\* A call that awaits a subscription notes the shift of a session.
NoteShift(call) ==
    IF sessions # <<>> /\ call.pc = "subscribe"
    THEN [call EXCEPT !.shifted = TRUE] ELSE call

Shifted(cs) == BagOfAll(NoteShift, cs)

\* The composition of tasks a verb runs on each vhost.
VhostTasks(verb) ==
    CASE verb = "nuke" -> nukeVhost
      [] verb = "purge" -> purgeVhost
      [] verb = "shutdown" -> shutdownVhost
      [] verb = "bounce" -> bounceVhost
      [] OTHER -> <<>>

\* The first lines of unsubscribeAll, for the verb that runs it: the
\* timeout, the snapshot, and the cancel of the first session or, with no
\* session, the timer.
StartUnsubscribeAll(verb) ==
    LET call == [NewCall(verb) EXCEPT !.timeout = getMaxDeferCloseChannelTimeout,
                                      !.snapshot = sessions]
    IN /\ Ready
       /\ BagCardinality(calls) < MaxCalls
       /\ IF sessions = <<>>
          THEN /\ calls' = With(calls, [call EXCEPT !.pc = "defer"])
               /\ UNCHANGED sessions
          ELSE /\ sessions' = shift(sessions)
               /\ calls' = With(Shifted(calls),
                                [call EXCEPT !.pc = "cancel", !.idx = 1,
                                             !.requested = <<sessions[1]>>])
       /\ last' = NoLast
       /\ UNCHANGED <<callerConfig, created, config, vhosts, publications,
                      subscriptions, keepActive, initRun, subscribed,
                      succeeded, configureVars>>

unsubscribeAll == StartUnsubscribeAll("unsubscribeAll")

shutdown == StartUnsubscribeAll("shutdown")

bounce == StartUnsubscribeAll("bounce")

nuke == StartUnsubscribeAll("nuke")

\* What a call that ended with args did.
Ended(call, args) ==
    [Did(call.verb, Undef, <<args>>, NoErr, FALSE) EXCEPT !.call = <<call>>]

\* The callback of call c is called with args, and the call is over.
Return(c, args) ==
    /\ calls' = Without(calls, c)
    /\ last' = Ended(c, args)
    /\ UNCHANGED succeeded

\* Call c goes on as call, the calls before the step being cs.
Continue(c, call, cs) ==
    /\ calls' = With(Without(cs, c), call)
    /\ last' = NoLast
    /\ UNCHANGED succeeded

\* if (err) return next(err): what a verb does with unsubscribeAll's error.
ignoresError(err) == FALSE

returnsError(err) == err # NoErr

\* clearInterval(self.keepActive), which shutdown alone calls.
neverCleared(verb) == keepActive

clearInterval(verb) == IF verb = "shutdown" THEN "cleared" ELSE keepActive

\* vhosts = publications = subscriptions = {}, which nuke alone does.
notCleared(verb, map) == map

cleared(verb, map) == IF verb = "nuke" THEN <<>> ELSE map

\* The last lines of shutdown, bounce and nuke, after the last vhost: call
\* c ends as call.
Finish(c, call) ==
    /\ calls' = Without(calls, c)
    /\ last' = Ended(call, Args(NoErr, <<>>))
    /\ succeeded' = succeeded \cup ({c.verb} \cap {"shutdown", "nuke"})
    /\ keepActive' = clearInterval(c.verb)
    /\ vhosts' = cleared(c.verb, vhosts)
    /\ publications' = cleared(c.verb, publications)
    /\ subscriptions' = cleared(c.verb, subscriptions)

\* The callback unsubscribeAll was given by call c is called with err.
UnsubscribeAllCallback(c, err) ==
    IF c.verb = "unsubscribeAll" \/ returnsError(err)
    THEN /\ Return(c, Args(err, <<>>))
         /\ UNCHANGED <<keepActive, vhosts, publications, subscriptions>>
    ELSE IF vhosts = <<>>
    THEN Finish(c, c)
    ELSE /\ Continue(c, [c EXCEPT !.pc = "vhost", !.vlist = vhosts, !.vidx = 1,
                                 !.vstep = 1], calls)
         /\ UNCHANGED <<keepActive, vhosts, publications, subscriptions>>

\* The cancel of the session at idx of call c calls back.
CancelDone(c, ok) ==
    /\ c.pc = "cancel"
    /\ IF ~ok
       THEN /\ UnsubscribeAllCallback(c, CancelError)
            /\ UNCHANGED sessions
       ELSE IF c.idx < Len(c.snapshot)
       THEN /\ sessions' = shift(sessions)
            /\ Continue(c, [c EXCEPT
                               !.acked = Append(@, c.snapshot[c.idx]),
                               !.idx = c.idx + 1,
                               !.requested = Append(@, c.snapshot[c.idx + 1])],
                        Shifted(calls))
            /\ UNCHANGED <<keepActive, vhosts, publications, subscriptions>>
       ELSE /\ Continue(c, [c EXCEPT !.acked = Append(@, c.snapshot[c.idx]),
                                     !.pc = "defer"], calls)
            /\ UNCHANGED <<sessions, keepActive, vhosts, publications,
                           subscriptions>>
    /\ UNCHANGED <<callerConfig, created, config, initRun, subscribed,
                   configureVars>>

\* A call whose timer runs and has not run for its timeout.
Waits(call) == call.pc = "defer" /\ call.waited < call.timeout

Waited(call) == IF Waits(call) THEN [call EXCEPT !.waited = @ + 1] ELSE call

\* Time passes for the running timers.
Tick ==
    /\ \E c \in BagToSet(calls) : Waits(c)
    /\ calls' = BagOfAll(Waited, calls)
    /\ last' = NoLast
    /\ UNCHANGED <<callerConfig, created, config, vhosts, publications,
                   subscriptions, sessions, keepActive, initRun,
                   subscribed, succeeded, configureVars>>

\* setTimeoutUnref(next, timeout) of call c calls next.
TimerFires(c) ==
    /\ c.pc = "defer"
    /\ c.waited >= c.timeout
    /\ UnsubscribeAllCallback(c, NoErr)
    /\ UNCHANGED <<callerConfig, created, config, sessions, initRun,
                   subscribed, configureVars>>

\* The tasks of a composition that completed on a vhost, as <<vhost, task>>.
Done(c) == Append(c.ops, <<c.vlist[c.vidx], VhostTasks(c.verb)[c.vstep]>>)

\* The running task of a vhost's composition calls back for call c.
VhostTaskDone(c, ok) ==
    /\ c.pc = "vhost"
    /\ IF ~ok
       THEN /\ Return(c, Args(VhostError, <<>>))
            /\ UNCHANGED <<keepActive, vhosts, publications, subscriptions>>
       ELSE IF c.vstep < Len(VhostTasks(c.verb))
       THEN /\ Continue(c, [c EXCEPT !.ops = Done(c), !.vstep = @ + 1], calls)
            /\ UNCHANGED <<keepActive, vhosts, publications, subscriptions>>
       ELSE IF c.vidx < Len(c.vlist)
       THEN /\ Continue(c, [c EXCEPT !.ops = Done(c), !.vidx = @ + 1,
                                     !.vstep = 1], calls)
            /\ UNCHANGED <<keepActive, vhosts, publications, subscriptions>>
       ELSE Finish(c, [c EXCEPT !.ops = Done(c)])
    /\ UNCHANGED <<callerConfig, created, config, sessions, initRun,
                   subscribed, configureVars>>

\* purge(next): the vhosts are purged one after the other; with no vhost
\* next is called at once.
purge ==
    /\ Ready
    /\ BagCardinality(calls) < MaxCalls
    /\ IF vhosts = <<>>
       THEN /\ last' = Ended(NewCall("purge"), Args(NoErr, <<>>))
            /\ UNCHANGED calls
       ELSE /\ calls' = With(calls, [NewCall("purge") EXCEPT
                                       !.pc = "vhost", !.vlist = vhosts,
                                       !.vidx = 1, !.vstep = 1])
            /\ last' = NoLast
    /\ UNCHANGED <<callerConfig, created, config, vhosts, publications,
                   subscriptions, sessions, keepActive, initRun, subscribed,
                   succeeded, configureVars>>

\* The sessions the subscribe calls under way may still create.
Awaited(call) ==
    IF call.pc = "subscribe" THEN Len(call.todo) - call.sidx + 1 ELSE 0

RECURSIVE Pending(_)
Pending(cs) ==
    IF cs = {} THEN 0
    ELSE Pending(cs \ {CHOOSE c \in cs : TRUE})
         + CopiesIn(CHOOSE c \in cs : TRUE, calls) * Awaited(CHOOSE c \in cs : TRUE)

RoomOf(bound) == bound - subscribed - Pending(BagToSet(calls))

Room == RoomOf(MaxSessions)

UnknownSubscription(name) == format("Unknown subscription: ", name)

Reported(verb, name, err) == Did(verb, name, <<Args(err, <<>>)>>, NoErr, FALSE)

Invoked(verb, name) == Did(verb, name, <<>>, NoErr, TRUE)

\* The forms of the overrides argument: left out, a routing key, an object.
Overrides == {"omitted", "string", "object"}

\* subscribe(name, overrides, next), overrides given or left out, while
\* fewer than bound sessions were created.
subscribeUpTo(name, overrides, bound) ==
    /\ Ready
    /\ IF ~InSeq(name, subscriptions)
       THEN /\ last' = Reported("subscribe", name, UnknownSubscription(name))
            /\ UNCHANGED calls
       ELSE /\ BagCardinality(calls) < MaxCalls
            /\ RoomOf(bound) >= 1
            /\ calls' = With(calls, [NewCall("subscribe") EXCEPT
                              !.pc = "subscribe", !.todo = <<name>>, !.sidx = 1,
                              !.attempted = <<name>>])
            /\ last' = NoLast
    /\ UNCHANGED <<callerConfig, created, config, vhosts, publications,
                   subscriptions, sessions, keepActive, initRun,
                   subscribed, succeeded, configureVars>>

subscribe(name, overrides) == subscribeUpTo(name, overrides, MaxSessions)

\* _.chain(config.subscriptions).values().filter(filter).value(), the
\* filter being the set of the subscriptions it holds for.
unfiltered(filter) == config.subscriptions

filtered(filter) == SelectSeq(config.subscriptions, LAMBDA x : x.key \in filter)

filteredSubscriptions(filter) ==
    [i \in 1..Len(filtered(filter)) |-> filtered(filter)[i].name]

\* async.mapSeries goes on with the subscription at sidx of call.  The call
\* is either one that starts (c = call) or what the call c under way has
\* become.  After the last subscription its callback gets the sessions;
\* self.subscribe reports an unknown subscription at once; else the
\* subscription's subscribe is awaited.
mapSeries(c, call, sidx) ==
    LET over(ended, args) ==
            /\ calls' = IF c = call THEN calls ELSE Without(calls, c)
            /\ last' = Ended([ended EXCEPT !.sidx = sidx], args)
            /\ UNCHANGED succeeded
        goesOn(next) ==
            IF c = call
            THEN /\ calls' = With(calls, next)
                 /\ last' = NoLast
                 /\ UNCHANGED succeeded
            ELSE Continue(c, next, calls)
    IN IF sidx > Len(call.todo)
       THEN over(call, Args(NoErr, call.results))
       ELSE IF ~InSeq(call.todo[sidx], subscriptions)
       THEN over([call EXCEPT !.attempted = Append(@, call.todo[sidx])],
                 Args(UnknownSubscription(call.todo[sidx]), <<>>))
       ELSE goesOn([call EXCEPT !.pc = "subscribe", !.sidx = sidx,
                                !.attempted = Append(@, call.todo[sidx])])

\* subscribeAll(filter, next); without a filter it holds for all.
subscribeAll(filter) ==
    /\ Ready
    /\ BagCardinality(calls) < MaxCalls
    /\ Room >= Len(filteredSubscriptions(filter))
    /\ mapSeries([NewCall("subscribeAll") EXCEPT
                     !.filter = filter, !.todo = filteredSubscriptions(filter)],
                 [NewCall("subscribeAll") EXCEPT
                     !.filter = filter, !.todo = filteredSubscriptions(filter)], 1)
    /\ UNCHANGED <<callerConfig, created, config, vhosts, publications,
                   subscriptions, sessions, keepActive, initRun,
                   subscribed, configureVars>>

\* A push that appends nothing.
pushNothing(list, session) == list

\* sessions.push(session)
push(list, session) == Append(list, session)

\* The subscription's subscribe calls back for call c: with an error, or
\* with a new session, whose close channel deferral is defer.
SubscribeDone(c, ok, defer) ==
    /\ c.pc = "subscribe"
    /\ IF ~ok
       THEN /\ Return(c, Args(SubscribeError, <<>>))
            /\ UNCHANGED <<sessions, subscribed>>
       ELSE /\ subscribed' = subscribed + 1
            /\ sessions' = push(sessions, Session(subscribed + 1, defer))
            /\ IF c.verb = "subscribe"
               THEN Return(c, Args(NoErr, <<Session(subscribed + 1, defer)>>))
               ELSE mapSeries(c, [c EXCEPT !.results =
                                     Append(@, Session(subscribed + 1, defer))],
                              c.sidx + 1)
    /\ UNCHANGED <<callerConfig, created, config, vhosts, publications,
                   subscriptions, keepActive, initRun, configureVars>>

\* publish without the check of the name.
publishDidUnchecked(name, overrides) == Invoked("publish", name)

RECURSIVE publishDid(_, _)
\* publish(name, message, overrides, next)
publishDid(name, overrides) ==
    IF overrides = "omitted" THEN publishDid(name, "object")
    ELSE IF overrides = "string" THEN publishDid(name, "object")
    ELSE IF ~InSeq(name, publications)
    THEN Reported("publish", name, format("Unknown publication: ", name))
    ELSE Invoked("publish", name)

RECURSIVE forwardDid(_, _)
\* forward(name, message, overrides, next): publications[name].forward
\* throws a TypeError when publications holds no name.
forwardDid(name, overrides) ==
    IF overrides = "omitted" THEN forwardDid(name, "object")
    ELSE IF overrides = "string" THEN forwardDid(name, "object")
    ELSE IF ~HasKey(config.publications, name)
    THEN Reported("forward", name, format("Unknown publication: ", name))
    ELSE IF ~InSeq(name, publications)
    THEN Did("forward", name, <<>>, TypeError, FALSE)
    ELSE Invoked("forward", name)

\* connect(name, next)
connectDid(name) ==
    IF ~InSeq(name, vhosts)
    THEN Reported("connect", name, format("Unknown vhost: ", name))
    ELSE Invoked("connect", name)

SyncUnchanged ==
    UNCHANGED <<callerConfig, created, config, vhosts, publications,
                subscriptions, sessions, keepActive, initRun, subscribed,
                calls, succeeded, configureVars>>

publish(name, overrides) ==
    /\ Ready
    /\ last' = publishDid(name, overrides)
    /\ SyncUnchanged

forward(name, overrides) ==
    /\ Ready
    /\ last' = forwardDid(name, overrides)
    /\ SyncUnchanged

connect(name) ==
    /\ Ready
    /\ last' = connectDid(name)
    /\ SyncUnchanged

\* getConnections(): getConnectionDetails of every live vhost.
getConnections ==
    /\ Ready
    /\ last' = Did("getConnections", Undef, <<>>, NoErr, vhosts # <<>>)
    /\ SyncUnchanged

\* The second vhost of a broker: "v2", with a queue and a publication.
BrokerVhost ==
    <<RawVhost(<<"v", "2">>, Undef, <<RawQueue(<<"q", "1">>, Undef, Undef)>>, <<>>,
               <<RawPublication(<<"p", "1">>, Undef, <<"e", "1">>, Undef, Undef)>>,
               <<>>)>>

BrokerConfig(vhost2, local, root) ==
    [vhosts |-> <<RawVhost(<<"v", "1">>, <<"n">>,
                           <<RawQueue(<<"q", "1">>, Undef, Undef)>>,
                           <<RawBinding(<<"b", "1">>, Undef, Undef, Undef)>>,
                           local, <<>>)>> \o vhost2,
     publications |-> root, subscriptions |-> <<>>, shovels |-> <<>>,
     counters |-> <<>>, defaults |-> VhostDefaults(<<"#">>)]

\* The configurations create is called with: two vhosts; two vhosts that
\* declare the same publication; a publication of a vhost that does not
\* exist.
BrokerConfigs ==
    {BrokerConfig(BrokerVhost, <<>>, <<>>),
     BrokerConfig(BrokerVhost,
                  <<RawPublication(<<"p", "1">>, Undef, <<"e", "1">>, Undef, Undef)>>,
                  <<>>),
     BrokerConfig(<<>>, <<>>,
                  <<RawPublication(<<"p", "1">>, <<"v", "2">>, <<"e", "1">>, Undef,
                                   Undef)>>)}

\* The names the verbs are called with: one the configurations hold and one
\* that none of them holds.
VhostNames == {<<"v", "1">>, <<"x">>}
PublicationNames == {<<"p", "1">>, <<"x">>}
SubscriptionNames == {<<"v", "1", "/", "q", "1">>, <<"x">>}

\* The filters of subscribeAll, as the keys they hold for.
Filters == SUBSET {<<"v", "1", "/", "q", "1">>, <<"v", "2", "/", "q", "1">>}

Next ==
    \/ \E seed \in Seeds : Create(seed)
    \/ \E ok \in BOOLEAN : InitTaskDone(ok)
    \/ InitCallback
    \/ unsubscribeAll
    \/ shutdown
    \/ bounce
    \/ nuke
    \/ \E c \in BagToSet(calls), ok \in BOOLEAN : CancelDone(c, ok)
    \/ Tick
    \/ \E c \in BagToSet(calls) : TimerFires(c)
    \/ \E c \in BagToSet(calls), ok \in BOOLEAN : VhostTaskDone(c, ok)
    \/ \E name \in SubscriptionNames, o \in {"omitted", "object"} : subscribe(name, o)
    \/ \E filter \in Filters : subscribeAll(filter)
    \/ \E c \in BagToSet(calls), ok \in BOOLEAN, defer \in 0..MaxDefer :
           SubscribeDone(c, ok, defer)
    \/ \E name \in PublicationNames, o \in Overrides : publish(name, o)
    \/ \E name \in PublicationNames, o \in Overrides : forward(name, o)
    \/ \E name \in VhostNames : connect(name)
    \/ purge
    \/ getConnections

Init ==
    /\ BrokerInit
    /\ callerConfig \in BrokerConfigs
    /\ cpc = "off"
    /\ configured = NoResult
    /\ reconfigured = NoResult

Spec == Init /\ [][Next]_vars

(***************************************************************************)
(* The live session list on its own: the broker create handed over, and    *)
(* the verbs that do not end it, with up to MaxLive sessions.              *)
(***************************************************************************)
MaxLive == 3

\* create(rascalConfig, next) has called next(null, broker).
Handed(rascalConfig, seed) ==
    LET r == RunPreflight(preflight, rascalConfig, seed, <<>>)
    IN /\ r.err = NoErr
       /\ created = [called |-> TRUE, ran |-> r.ran,
                     callbacks |-> <<[err |-> NoErr]>>]
       /\ config = r.cfg
       /\ vhosts = addAll(<<>>, r.cfg.vhosts, 1)
       /\ publications = addAll(<<>>, r.cfg.publications, 1)
       /\ subscriptions = addAll(<<>>, r.cfg.subscriptions, 1)
       /\ initRun = [started |-> init, completed |-> init, err |-> NoErr,
                     pc |-> "ready"]
       /\ keepActive = "active"

InitSessions ==
    /\ callerConfig \in BrokerConfigs
    /\ \E seed \in Seeds : Handed(callerConfig, seed)
    /\ sessions = <<>>
    /\ subscribed = 0
    /\ calls = EmptyBag
    /\ last = NoLast
    /\ succeeded = {}
    /\ cpc = "off"
    /\ configured = NoResult
    /\ reconfigured = NoResult

NextSessions ==
    \/ \E name \in SubscriptionNames, o \in {"omitted", "object"} :
           subscribeUpTo(name, o, MaxLive)
    \/ \E c \in BagToSet(calls), ok \in BOOLEAN, defer \in 0..MaxDefer :
           SubscribeDone(c, ok, defer)
    \/ unsubscribeAll
    \/ \E c \in BagToSet(calls), ok \in BOOLEAN : CancelDone(c, ok)
    \/ Tick
    \/ \E c \in BagToSet(calls) : TimerFires(c)
    \/ purge
    \/ \E c \in BagToSet(calls), ok \in BOOLEAN : VhostTaskDone(c, ok)
    \/ \E name \in PublicationNames, o \in Overrides : publish(name, o)
    \/ \E name \in PublicationNames, o \in Overrides : forward(name, o)
    \/ \E name \in VhostNames : connect(name)
    \/ getConnections

SpecSessions == InitSessions /\ [][NextSessions]_vars

(***************************************************************************)
(* configure on its own (lib/config/configure.js): a caller configures a   *)
(* raw configuration and then configures the result once more.             *)
(***************************************************************************)
BrokerUnchanged ==
    UNCHANGED <<callerConfig, created, config, vhosts, publications,
                subscriptions, sessions, keepActive, initRun, subscribed,
                calls, last, succeeded>>

\* configure(callerConfig, next)
Configure(seed) ==
    /\ cpc = "input"
    /\ configured' = configure(callerConfig, seed)
    /\ cpc' = "once"
    /\ UNCHANGED reconfigured
    /\ BrokerUnchanged

\* configure(result, next) with the result of the first run
Reconfigure(seed) ==
    /\ cpc = "once"
    /\ configured.err = NoErr
    /\ reconfigured' = configure(configured.cfg, seed)
    /\ cpc' = "twice"
    /\ UNCHANGED configured
    /\ BrokerUnchanged

\* configure(callerConfig, next) once more in the same process, on the
\* configuration as the caller gave it.
ConfigureAgain(seed) ==
    /\ cpc = "once"
    /\ reconfigured' = configure(callerConfig, seed)
    /\ cpc' = "again"
    /\ UNCHANGED configured
    /\ BrokerUnchanged

NextConfigure ==
    \/ \E seed \in Seeds : Configure(seed)
    \/ \E seed \in Seeds : Reconfigure(seed)
    \/ \E seed \in Seeds : ConfigureAgain(seed)

InitConfigure ==
    /\ BrokerInit
    /\ callerConfig \in RascalConfigs
    /\ cpc = "input"
    /\ configured = NoResult
    /\ reconfigured = NoResult

SpecConfigure == InitConfigure /\ [][NextConfigure]_vars

(***************************************************************************)
(* The properties.                                                         *)
(***************************************************************************)
\* The call the last step ended, if it ended one.
EndedCalls == {last.call[i] : i \in 1..Len(last.call)}

\* The last step called the callback of verb once, without error.
Succeeded(verb) ==
    /\ last.verb = verb
    /\ Len(last.callbacks) = 1
    /\ last.callbacks[1].err = NoErr

Deferrals(list) == {list[i].deferCloseChannel : i \in 1..Len(list)}

\* The call has all its cancels acknowledged and its timer has run out.
Unsubscribed(c) ==
    /\ c.requested = c.snapshot
    /\ c.acked = c.snapshot
    /\ c.waited >= c.timeout
    /\ c.timeout = Max(Deferrals(c.snapshot))

\* C1: unsubscribeAll calls back without error only after every session of
\* its snapshot of the live list has acknowledged its cancel, the cancels
\* being requested one at a time in the order of the list (each one after
\* the acknowledgement of the one before), and after the timer, started
\* after the last acknowledgement, has run for the greatest deferral of
\* those sessions, 0 when there are none.
UnsubscribeAllAwaitsCancelsThenDefers ==
    /\ \A c \in BagToSet(calls) :
           /\ c.pc = "cancel" =>
                  /\ c.idx \in 1..Len(c.snapshot)
                  /\ c.requested = SubSeq(c.snapshot, 1, c.idx)
                  /\ c.acked = SubSeq(c.snapshot, 1, c.idx - 1)
                  /\ c.waited = 0
           /\ c.pc = "defer" =>
                  /\ c.requested = c.snapshot
                  /\ c.acked = c.snapshot
                  /\ c.waited <= c.timeout
           /\ c.pc \in {"cancel", "defer"} =>
                  c.timeout = Max(Deferrals(c.snapshot))
    /\ \A c \in EndedCalls :
           Succeeded("unsubscribeAll") => c.pc = "defer" /\ Unsubscribed(c)

\* An unsubscribeAll of two sessions, the second with the longer deferral,
\* has called back without error.
UnsubscribeAllOfTwoSessionsEnded ==
    /\ Succeeded("unsubscribeAll")
    /\ \E c \in EndedCalls :
           /\ Len(c.snapshot) = 2
           /\ c.snapshot[1].deferCloseChannel = 0
           /\ c.snapshot[2].deferCloseChannel = 1
           /\ c.waited = 1

\* The order the specification gives the tasks of init, and the order of
\* async.compose.
CountersFirst == <<"initCounters", "initVhosts", "initPublications",
                   "initSubscriptions", "initShovels">>

VhostsFirst == <<"initVhosts", "initCounters", "initPublications",
                 "initSubscriptions", "initShovels">>

\* The tasks of init start in the order given, each after the one before it
\* has completed, and none after one that failed.
InitRunsInOrder(order) ==
    /\ Len(initRun.started) <= Len(order)
    /\ initRun.started = SubSeq(order, 1, Len(initRun.started))
    /\ initRun.completed = SubSeq(initRun.started, 1, Len(initRun.completed))
    /\ Len(initRun.started) - Len(initRun.completed) \in {0, 1}
    /\ initRun.pc = "running" =>
           /\ Len(initRun.started) = Len(initRun.completed) + 1
           /\ initRun.err = NoErr
    /\ initRun.err # NoErr => Len(initRun.started) = Len(initRun.completed) + 1
    /\ initRun.err = NoErr /\ initRun.pc \in {"callback", "ready"} =>
           initRun.completed = order

\* C2 as stated: the tasks of init run in the order counters, vhosts,
\* publications, subscriptions, shovels, none before the previous one has
\* completed and none after one that failed.
InitRunsCountersFirst == InitRunsInOrder(CountersFirst)

\* C2: the tasks of init run in the order vhosts, counters, publications,
\* subscriptions, shovels, none before the previous one has completed and
\* none after one that failed.
InitRunsVhostsFirst == InitRunsInOrder(VhostsFirst)

\* Init has run all its tasks and handed the broker over.
InitCompleted ==
    /\ initRun.pc = "ready"
    /\ initRun.err = NoErr
    /\ initRun.completed = VhostsFirst

\* A task of init after the first has failed, and init has called back.
InitFailedMidway ==
    /\ initRun.pc = "ready"
    /\ initRun.err # NoErr
    /\ Len(initRun.completed) = 2

TeardownVerbs == {"shutdown", "bounce", "nuke"}

\* The live vhosts of a broker that holds them all.
ConfiguredVhosts == [i \in 1..Len(config.vhosts) |-> config.vhosts[i].name]

RECURSIVE VhostOps(_, _)
\* The tasks of tasks on each vhost of vlist in turn, as <<vhost, task>>.
VhostOps(tasks, vlist) ==
    IF vlist = <<>> THEN <<>>
    ELSE [i \in 1..Len(tasks) |-> <<Head(vlist), tasks[i]>>]
             \o VhostOps(tasks, Tail(vlist))

\* What each verb does to a vhost, written out.
TasksOf(verb) ==
    CASE verb = "nuke" -> <<"nukeVhost", "shutdownVhost", "deleteVhost">>
      [] verb = "shutdown" -> <<"shutdownVhost">>
      [] verb = "bounce" -> <<"bounceVhost">>
      [] OTHER -> <<>>

\* The tasks call c has completed are those of the vhosts before the one at
\* vidx and the first of that one: one vhost at a time, in order.
OneVhostAtATime(c) ==
    /\ c.vidx \in 1..Len(c.vlist)
    /\ c.vstep \in 1..Len(TasksOf(c.verb))
    /\ c.ops = SubSeq(VhostOps(TasksOf(c.verb), c.vlist), 1,
                      (c.vidx - 1) * Len(TasksOf(c.verb)) + c.vstep - 1)

\* While a verb is under way: no vhost is touched during its
\* unsubscribeAll, and the vhosts are processed after it, one at a time.
VhostsAfterUnsubscribeAll ==
    \A c \in BagToSet(calls) :
        c.verb \in TeardownVerbs =>
            /\ c.pc \in {"cancel", "defer", "vhost"}
            /\ c.pc \in {"cancel", "defer"} => c.ops = <<>>
            /\ c.pc = "vhost" =>
                   /\ Unsubscribed(c)
                   /\ c.vlist = ConfiguredVhosts
                   /\ OneVhostAtATime(c)

\* The verb ended by the error of its unsubscribeAll, no vhost touched.
EndedByUnsubscribeAll(c) ==
    /\ last.callbacks = <<Args(CancelError, <<>>)>>
    /\ c.pc = "cancel"
    /\ c.ops = <<>>

\* The verb ended after the last vhost was done.
EndedAfterLastVhost(c) ==
    /\ Unsubscribed(c)
    /\ c.vlist = IF c.pc = "vhost" THEN ConfiguredVhosts ELSE <<>>
    /\ c.ops = VhostOps(TasksOf(c.verb), c.vlist)

\* The verb ended by the error of a vhost's task, the vhosts after it
\* untouched.
EndedByVhost(c) ==
    /\ last.callbacks = <<Args(VhostError, <<>>)>>
    /\ c.pc = "vhost"
    /\ Unsubscribed(c)
    /\ OneVhostAtATime(c)

\* C3 as stated: shutdown, bounce and nuke touch no vhost until their
\* unsubscribeAll has completed, pass its error to their callback with no
\* vhost touched, process the vhosts one at a time, and call back only
\* after the last vhost is done.
VerbCallsBackAfterLastVhost ==
    /\ VhostsAfterUnsubscribeAll
    /\ \A c \in EndedCalls :
           last.verb \in TeardownVerbs =>
               EndedByUnsubscribeAll(c) \/ EndedAfterLastVhost(c)

\* C3: shutdown, bounce and nuke touch no vhost until their unsubscribeAll
\* has completed, pass its error to their callback with no vhost touched,
\* and process the vhosts one at a time; they call back without error only
\* after the last vhost is done, and with the error of a vhost's task as
\* soon as it fails, the vhosts after it untouched.
VerbSucceedsAfterLastVhost ==
    /\ VhostsAfterUnsubscribeAll
    /\ \A c \in EndedCalls :
           last.verb \in TeardownVerbs =>
               /\ Len(last.callbacks) = 1
               /\ \/ EndedByUnsubscribeAll(c)
                  \/ EndedByVhost(c)
                  \/ Succeeded(last.verb) /\ EndedAfterLastVhost(c)

\* A bounce that cancelled a session and bounced two vhosts has called back
\* without error.
BounceOfTwoVhostsEnded ==
    /\ Succeeded("bounce")
    /\ \E c \in EndedCalls :
           /\ Len(c.acked) >= 1
           /\ c.ops = <<<<ConfiguredVhosts[1], "bounceVhost">>,
                        <<ConfiguredVhosts[2], "bounceVhost">>>>

\* C4 as stated: once a shutdown call has invoked its callback, the
\* keep-alive timer is no longer active.
ShutdownCallbackClearsTimer ==
    last.verb = "shutdown" /\ last.callbacks # <<>> => keepActive = "cleared"

\* C4: the keep-alive timer is active from the end of init until a
\* shutdown call invokes its callback without error, and never after.
ShutdownSuccessClearsTimer ==
    /\ Succeeded("shutdown") => "shutdown" \in succeeded
    /\ "shutdown" \in succeeded => keepActive = "cleared"
    /\ "shutdown" \notin succeeded =>
           keepActive = IF initRun.pc \in {"callback", "ready"}
                        THEN "active" ELSE "unset"

\* A shutdown has called back without error and the timer is cleared.
ShutdownEnded == Succeeded("shutdown") /\ keepActive = "cleared"

\* The error a verb reports for a name it does not know.
Unknown(kind, name) == <<"Unknown " \o kind \o ": ">> \o ToText(name)

ReportsUnknown(verb, kind) ==
    last = [verb |-> verb, name |-> last.name,
            callbacks |-> <<[err |-> Unknown(kind, last.name), result |-> <<>>]>>,
            thrown |-> NoErr, invoked |-> FALSE, call |-> <<>>]

\* C5: when nuke calls back without error every vhost has been nuked, then
\* shut down, then deleted, in turn; from then on the broker holds no live
\* vhost, publication or subscription, and a connect, publish or subscribe
\* called with any name reports Unknown vhost, Unknown publication or
\* Unknown subscription with that name.
NukeClearsBroker ==
    /\ \A c \in EndedCalls :
           Succeeded("nuke") =>
               /\ EndedAfterLastVhost(c)
               /\ "nuke" \in succeeded
    /\ "nuke" \in succeeded =>
           /\ vhosts = <<>>
           /\ publications = <<>>
           /\ subscriptions = <<>>
           /\ last.verb = "connect" => ReportsUnknown("connect", "vhost")
           /\ last.verb = "publish" => ReportsUnknown("publish", "publication")
           /\ last.verb = "subscribe" /\ last.call = <<>> =>
                  ReportsUnknown("subscribe", "subscription")

\* Nuke has nuked, shut down and deleted two vhosts and called back.
NukeOfTwoVhostsEnded ==
    /\ Succeeded("nuke")
    /\ \E c \in EndedCalls :
           c.ops = <<<<ConfiguredVhosts[1], "nukeVhost">>,
                     <<ConfiguredVhosts[1], "shutdownVhost">>,
                     <<ConfiguredVhosts[1], "deleteVhost">>,
                     <<ConfiguredVhosts[2], "nukeVhost">>,
                     <<ConfiguredVhosts[2], "shutdownVhost">>,
                     <<ConfiguredVhosts[2], "deleteVhost">>>>

\* The step is a call of verb with a name that map does not hold.
UnknownName(verb, map) ==
    /\ last'.verb = verb
    /\ last'.call = <<>>
    /\ ~InSeq(last'.name, map)

\* The step reports the name as unknown to the callback, once, invokes
\* nothing and changes nothing of the broker.
OnlyReportsUnknown(verb, kind) ==
    /\ ReportsUnknown(verb, kind)'
    /\ UNCHANGED <<sessions, calls, subscribed, vhosts, publications,
                   subscriptions, keepActive>>

\* C6: publish, subscribe and connect called with a name for which the
\* broker holds no live publication, subscription or vhost pass one error
\* to the callback, Unknown publication, Unknown subscription or Unknown
\* vhost with the name; they invoke no publication, subscription or vhost
\* and leave the session list as it is, with the overrides left out, given
\* as a routing key or given as an object.
UnknownNamesAreReported ==
    [][/\ UnknownName("publish", publications) =>
              OnlyReportsUnknown("publish", "publication")
       /\ UnknownName("subscribe", subscriptions) =>
              OnlyReportsUnknown("subscribe", "subscription")
       /\ UnknownName("connect", vhosts) =>
              OnlyReportsUnknown("connect", "vhost")]_vars

\* publish was called with a name the broker does not hold while it holds
\* publications and a session, and reported it.
UnknownPublicationReported ==
    /\ last.verb = "publish"
    /\ last.name = <<"x">>
    /\ Len(last.callbacks) = 1
    /\ publications # <<>>
    /\ sessions # <<>>

\* C7 as stated: forward called with a name for which the broker holds no
\* live publication reports Unknown publication with the name to its
\* callback and fails in no other way, in every state of the broker.
ForwardReportsUnknownPublication ==
    last.verb = "forward" /\ ~InSeq(last.name, publications) =>
        ReportsUnknown("forward", "publication")

\* create failed with the error configure or else validate gives on a copy
\* of callerConfig, validate not run after a configure that failed.
FailedIn(r) ==
    IF r.err # NoErr
    THEN /\ created.ran = <<"configure">>
         /\ created.callbacks = <<[err |-> r.err]>>
    ELSE /\ created.ran = <<"configure", "validate">>
         /\ validate(r.cfg).err # NoErr
         /\ created.callbacks = <<[err |-> validate(r.cfg).err]>>

\* create went on to init with the configuration configure and then
\* validate give on a copy of callerConfig.
PassedWith(r) ==
    /\ r.err = NoErr
    /\ validate(r.cfg) = [err |-> NoErr, cfg |-> config]
    /\ created.ran = <<"configure", "validate">>
    /\ created.callbacks = <<>>

\* No broker is initialized: no task of init has run, no timer is started.
NothingInitialized ==
    /\ initRun = [started |-> <<>>, completed |-> <<>>, err |-> NoErr,
                  pc |-> "idle"]
    /\ keepActive = "unset"
    /\ config = NoConfig
    /\ vhosts = <<>> /\ publications = <<>> /\ subscriptions = <<>>

\* C8: create runs configure and then validate on a copy of the caller's
\* configuration; if either fails create passes that error to its callback
\* and no broker is initialized, and validate does not run when configure
\* failed; the caller's configuration object is never modified.
CreatePreflightsACopy ==
    /\ callerConfig \in BrokerConfigs
    /\ ~created.called => NothingInitialized /\ created.callbacks = <<>>
    /\ created.called /\ initRun.pc = "idle" =>
           /\ NothingInitialized
           /\ \E seed \in Seeds : FailedIn(configure(callerConfig, seed))
    /\ created.called /\ initRun.pc = "running" /\ initRun.completed = <<>> =>
           \E seed \in Seeds : PassedWith(configure(callerConfig, seed))
    /\ created.called /\ initRun.pc # "idle" =>
           created.ran = <<"configure", "validate">>

\* create has failed in configure, which found a publication declared twice.
CreateFailedInConfigure ==
    /\ created.called
    /\ created.ran = <<"configure">>
    /\ created.callbacks =
           <<[err |-> <<"Duplicate publication: ", "p", "1">>]>>

\* The configured subscriptions filter holds for, in configuration order.
Selected(filter) ==
    LET chosen == SelectSeq(config.subscriptions, LAMBDA x : x.key \in filter)
    IN [i \in 1..Len(chosen) |-> chosen[i].name]

\* Call c of subscribeAll has called subscribe for the subscriptions up to
\* sidx, in order, and has the sessions of those before it.
OneSubscribeAtATime(c) ==
    /\ c.todo = Selected(c.filter)
    /\ c.sidx \in 1..Len(c.todo)
    /\ c.attempted = SubSeq(c.todo, 1, c.sidx)
    /\ Len(c.results) = c.sidx - 1
    /\ \A i, j \in 1..Len(c.results) : i < j => c.results[i].id < c.results[j].id

\* Call c of subscribeAll ended with all its subscribes done, its callback
\* given the sessions in their order.
AllSubscribed(c) ==
    /\ c.todo = Selected(c.filter)
    /\ c.attempted = c.todo
    /\ Len(c.results) = Len(c.todo)
    /\ \A i, j \in 1..Len(c.results) : i < j => c.results[i].id < c.results[j].id
    /\ last.callbacks = <<Args(NoErr, c.results)>>

\* Call c of subscribeAll ended with the failure of a subscribe, the
\* subscriptions after it not attempted.
SubscribeFailed(c) ==
    /\ OneSubscribeAtATime(c)
    /\ \/ last.callbacks = <<Args(SubscribeError, <<>>)>>
       \/ last.callbacks = <<Args(Unknown("subscription", c.todo[c.sidx]), <<>>)>>

Live(list) == \A i \in 1..Len(list) : InSeq(list[i], sessions)

SubscribeAllUnderWay ==
    \A c \in BagToSet(calls) :
        c.verb = "subscribeAll" => c.pc = "subscribe" /\ OneSubscribeAtATime(c)

\* C9 as stated: subscribeAll subscribes one at a time, in configuration
\* order, to the configured subscriptions its filter holds for; when every
\* subscribe succeeds its callback gets the sessions in that order and each
\* of them is in the live session list; when one fails its callback gets
\* the failure and the later subscriptions are not attempted.
SubscribeAllSessionsAreLive ==
    /\ SubscribeAllUnderWay
    /\ \A c \in EndedCalls :
           last.verb = "subscribeAll" =>
               \/ AllSubscribed(c) /\ Live(c.results)
               \/ SubscribeFailed(c)

\* C9: subscribeAll subscribes one at a time, in configuration order, to
\* the configured subscriptions its filter holds for; when every subscribe
\* succeeds its callback gets the sessions in that order, and each of them
\* is in the live session list unless an unsubscribeAll took a session off
\* the list while the call was under way; when one fails its callback gets
\* the failure and the later subscriptions are not attempted.
SubscribeAllSessionsAreLiveUnlessShifted ==
    /\ SubscribeAllUnderWay
    /\ \A c \in EndedCalls :
           last.verb = "subscribeAll" =>
               \/ AllSubscribed(c) /\ (~c.shifted => Live(c.results))
               \/ SubscribeFailed(c)

\* A subscribeAll with a filter that holds for every configured
\* subscription has called back with two sessions, both live.
SubscribeAllOfTwoEnded ==
    /\ Succeeded("subscribeAll")
    /\ \E c \in EndedCalls :
           /\ Len(c.results) = 2
           /\ c.attempted = <<config.subscriptions[1].name,
                              config.subscriptions[2].name>>
           /\ Live(c.results)

\* C10 as stated: for every input on which configure succeeds, configure
\* applied to its output succeeds and yields a configuration equal to that
\* output.
ConfigureIsIdempotent ==
    cpc = "twice" =>
        /\ reconfigured.err = NoErr
        /\ reconfigured.cfg = configured.cfg

\* The publications or subscriptions a configuration declares inside its
\* vhosts (field "publications" or "subscriptions") and at the root, each
\* with its name and the vhost it belongs to.
DeclaredIn(rascalConfig, field) ==
    {[name |-> rascalConfig.vhosts[v][field][i].key,
      vhost |-> Dflt(rascalConfig.vhosts[v].name, rascalConfig.vhosts[v].key)] :
        <<v, i>> \in {x \in (1..Len(rascalConfig.vhosts)) \X (1..2) :
                        x[2] <= Len(rascalConfig.vhosts[x[1]][field])}}
    \cup {[name |-> rascalConfig[field][i].key,
           vhost |-> rascalConfig[field][i].vhost] :
              i \in 1..Len(rascalConfig[field])}

\* The names declared twice with different vhosts.
Duplicates(rascalConfig, field) ==
    {d.name : d \in {x \in DeclaredIn(rascalConfig, field) :
                        \E y \in DeclaredIn(rascalConfig, field) :
                            y.name = x.name /\ y.vhost # x.vhost}}

DuplicateErrors(rascalConfig) ==
    {format("Duplicate publication: ", n) :
        n \in Duplicates(rascalConfig, "publications")}
    \cup {format("Duplicate subscription: ", n) :
        n \in Duplicates(rascalConfig, "subscriptions")}

\* C11 as stated: when two publications, or two subscriptions, of the
\* configuration have the same name and different vhosts, whatever their
\* place of declaration and their other fields, configure fails with the
\* Duplicate error of such a name.
DuplicatesAreReported ==
    (cpc # "input" /\ DuplicateErrors(callerConfig) # {})
        => configured.err \in DuplicateErrors(callerConfig)

\* Every entity of the keyed collection has its key as name.
NamedByKey(coll) == \A i \in 1..Len(coll) : coll[i].name = coll[i].key

\* The keyed collections of a vhost but its bindings are named by key.
VhostNamedByKey(vhostConfig) ==
    /\ NamedByKey(vhostConfig.exchanges)
    /\ NamedByKey(vhostConfig.queues)

\* The keyed collections of a configuration but the bindings of its vhosts
\* are named by key.
ConfigNamedByKey(rascalConfig) ==
    /\ NamedByKey(rascalConfig.vhosts)
    /\ \A v \in 1..Len(rascalConfig.vhosts) :
           VhostNamedByKey(rascalConfig.vhosts[v])
    /\ NamedByKey(rascalConfig.publications)
    /\ NamedByKey(rascalConfig.subscriptions)
    /\ NamedByKey(rascalConfig.shovels)
    /\ NamedByKey(rascalConfig.counters)

\* C12 as stated: after configure succeeds, every entity stored under a key
\* of a keyed collection (vhosts, exchanges, queues, bindings, publications,
\* subscriptions, shovels, counters) has that key as its name.
EveryNameIsItsKey ==
    (cpc # "input" /\ configured.err = NoErr) =>
        /\ ConfigNamedByKey(configured.cfg)
        /\ \A v \in 1..Len(configured.cfg.vhosts) :
               NamedByKey(configured.cfg.vhosts[v].bindings)

\* The elements of a sequence.
Elements(xs) == {xs[i] : i \in 1..Len(xs)}

\* The keys of a binding as the caller gives it: those its name holds, its
\* bindingKey and its bindingKeys, each once.
KeysOf(b) ==
    {k \in Elements(ConcatArg(parseBindingName(b.key).bindingKeys))
            \cup {b.bindingKey} \cup Elements(ConcatArg(b.bindingKeys)) :
        Truthy(k)}

\* The binding at position j of bindings comes from b with the binding key
\* bindingKey.
ExpandedFrom(b, bindings, j, bindingKey) ==
    /\ bindings[j].bindingKey = bindingKey
    /\ bindings[j].source = Dflt(b.source, parseBindingName(b.key).source)
    /\ bindings[j].destination =
           Dflt(b.destination, parseBindingName(b.key).destination)

\* bindings holds for b one binding for each of several keys, under the
\* name of b with the key, and none under the name of b; or one binding
\* under the name of b.  KeyOf(k) is the binding key expected for the key k
\* (Undef for no key).
FannedOut(b, bindings, KeyOf(_)) ==
    LET named(k) == {j \in 1..Len(bindings) :
                        bindings[j].key = b.key \o <<":">> \o k}
        own == {j \in 1..Len(bindings) : bindings[j].key = b.key}
    IN IF Cardinality(KeysOf(b)) > 1
       THEN /\ own = {}
            /\ \A k \in KeysOf(b) :
                   /\ Cardinality(named(k)) = 1
                   /\ \A j \in named(k) : ExpandedFrom(b, bindings, j, KeyOf(k))
       ELSE /\ Cardinality(own) = 1
            /\ \A j \in own :
                   ExpandedFrom(b, bindings, j,
                                IF KeysOf(b) = {} THEN KeyOf(Undef)
                                ELSE KeyOf(CHOOSE k \in KeysOf(b) : TRUE))

RECURSIVE ExpandedCount(_)
\* The number of bindings the bindings bs are expanded to.
ExpandedCount(bs) ==
    IF bs = <<>> THEN 0
    ELSE (IF Cardinality(KeysOf(Head(bs))) > 1 THEN Cardinality(KeysOf(Head(bs)))
          ELSE 1) + ExpandedCount(Tail(bs))

\* Every binding of every vhost of the caller is fanned out in the
\* configured vhost, which holds no other binding.
BindingsFannedOut(KeyOf(_, _)) ==
    \A v \in 1..Len(callerConfig.vhosts) :
        /\ Len(configured.cfg.vhosts[v].bindings) =
               ExpandedCount(callerConfig.vhosts[v].bindings)
        /\ \A i \in 1..Len(callerConfig.vhosts[v].bindings) :
               FannedOut(callerConfig.vhosts[v].bindings[i],
                         configured.cfg.vhosts[v].bindings,
                         LAMBDA k : KeyOf(v, k))

\* C13 as stated: a binding with several keys gives one binding for each
\* key, named by the binding and the key, with that key as its bindingKey
\* and the source and destination of the original, and none under the
\* original name; a binding with one key or none gives one binding under
\* its name, whose bindingKey is the key or unset.
BindingKeyIsTheKey ==
    (cpc # "input" /\ configured.err = NoErr)
        => BindingsFannedOut(LAMBDA v, k : k)

\* The binding key configureBindings leaves for the key k of the binding b
\* of the vhost at position v: the default binding key for no key,
\* qualified with the namespace of the vhost if qualifyBindingKeys is set.
ConfiguredKey(v, b, k) ==
    IF Truthy(b.qualifyBindingKeys)
    THEN qualify(Dflt(k, callerConfig.defaults.bindingKey),
                 configured.cfg.vhosts[v].namespace, Undef)
    ELSE Dflt(k, callerConfig.defaults.bindingKey)

\* C13: as stated, but the bindingKey of each binding is the key, or for a
\* binding with no key the default binding key, qualified with the
\* namespace of the vhost when the binding sets qualifyBindingKeys.
BindingKeyIsTheConfiguredKey ==
    (cpc # "input" /\ configured.err = NoErr) =>
        \A v \in 1..Len(callerConfig.vhosts) :
            /\ Len(configured.cfg.vhosts[v].bindings) =
                   ExpandedCount(callerConfig.vhosts[v].bindings)
            /\ \A i \in 1..Len(callerConfig.vhosts[v].bindings) :
                   FannedOut(callerConfig.vhosts[v].bindings[i],
                             configured.cfg.vhosts[v].bindings,
                             LAMBDA k : ConfiguredKey(
                                 v, callerConfig.vhosts[v].bindings[i], k))

\* A binding with three keys, two of them in its name, was configured in a
\* vhost with a namespace, its keys qualified.
BindingOfThreeKeysConfigured ==
    /\ cpc = "once"
    /\ configured.err = NoErr
    /\ callerConfig.vhosts[1].namespace = <<"n">>
    /\ Cardinality(KeysOf(callerConfig.vhosts[1].bindings[1])) = 3
    /\ Truthy(callerConfig.vhosts[1].bindings[1].qualifyBindingKeys)
    /\ Len(configured.cfg.vhosts[1].bindings) = 3

\* The caller declared a publication or a subscription (field) of that
\* name, in a vhost or at the root.
Declared(field, name) ==
    \E d \in DeclaredIn(callerConfig, field) : d.name = name

\* '<v>/<x>', and '/<x>' when v is '/'.
CreatedName(vhost, entity) ==
    (IF vhost.name = <<"/">> THEN <<>> ELSE vhost.name) \o <<"/">> \o entity.name

\* The configuration holds the publication created for the exchange or the
\* queue (field) entity of the vhost.
PublicationCreated(rascalConfig, vhost, entity, field) ==
    /\ HasKey(rascalConfig.publications, CreatedName(vhost, entity))
    /\ Declared("publications", CreatedName(vhost, entity))
        \/ LET p == Get(rascalConfig.publications, CreatedName(vhost, entity))
           IN /\ p.vhost = vhost.name
              /\ p[field] = entity.name
              /\ p.autoCreated = True
              /\ p.destination = entity.fullyQualifiedName

\* The configuration holds the subscription created for the queue of the
\* vhost.
SubscriptionCreated(rascalConfig, vhost, queue) ==
    /\ HasKey(rascalConfig.subscriptions, CreatedName(vhost, queue))
    /\ Declared("subscriptions", CreatedName(vhost, queue))
        \/ LET s == Get(rascalConfig.subscriptions, CreatedName(vhost, queue))
           IN /\ s.vhost = vhost.name
              /\ s.queue = queue.name
              /\ s.autoCreated = True
              /\ s.source = queue.fullyQualifiedName

\* C14 as stated: after configure succeeds, every exchange of every vhost
\* has its created publication, and every queue its created publication
\* and its created subscription, unless the caller declared one of that
\* name.
EveryEntityHasItsPublication ==
    (cpc # "input" /\ configured.err = NoErr) =>
        \A v \in 1..Len(configured.cfg.vhosts) :
            LET vhost == configured.cfg.vhosts[v]
            IN /\ \A x \in 1..Len(vhost.exchanges) :
                      PublicationCreated(configured.cfg, vhost,
                                         vhost.exchanges[x], "exchange")
               /\ \A q \in 1..Len(vhost.queues) :
                      /\ PublicationCreated(configured.cfg, vhost,
                                            vhost.queues[q], "queue")
                      /\ SubscriptionCreated(configured.cfg, vhost,
                                             vhost.queues[q])

\* The caller gave the vhost neither connection nor connections.
NoConnections(vhostConfig) ==
    vhostConfig.connection.kind = "undefined" /\ vhostConfig.connections = <<>>

\* The connection has the default connection attributes of the
\* configuration, and the name of the vhost as vhost.
IsDefaultConnection(connection, vhostConfig) ==
    /\ connection.protocol = callerConfig.defaults.connection.protocol
    /\ connection.hostname = callerConfig.defaults.connection.hostname
    /\ connection.port = callerConfig.defaults.connection.port
    /\ connection.options = callerConfig.defaults.connection.options
    /\ connection.vhost = vhostConfig.key

\* The vhost has no connection field, and a list of connections that is not
\* empty and holds no connection twice.
ConnectionsNormalized(vhostConfig) ==
    /\ vhostConfig.connection.kind = "undefined"
    /\ vhostConfig.connections # <<>>
    /\ \A i, j \in 1..Len(vhostConfig.connections) :
           vhostConfig.connections[i] = vhostConfig.connections[j] => i = j

\* C15 as stated: configure succeeds on vhosts given neither connection nor
\* connections, and each ends with the one default connection; and whenever
\* configure succeeds, every vhost has no connection field and a list of
\* connections that is not empty and holds no duplicate.
VhostWithoutConnectionIsValid ==
    cpc # "input" =>
        /\ (\A v \in 1..Len(callerConfig.vhosts) :
                NoConnections(callerConfig.vhosts[v]))
            => /\ configured.err = NoErr
               /\ \A v \in 1..Len(configured.cfg.vhosts) :
                      /\ Len(configured.cfg.vhosts[v].connections) = 1
                      /\ IsDefaultConnection(
                             configured.cfg.vhosts[v].connections[1],
                             configured.cfg.vhosts[v])
        /\ configured.err = NoErr
            => \A v \in 1..Len(configured.cfg.vhosts) :
                   ConnectionsNormalized(configured.cfg.vhosts[v])

\* The connection strategy of the vhost at position v.
StrategyOf(v) ==
    Dflt(callerConfig.vhosts[v].connectionStrategy,
         callerConfig.defaults.connectionStrategy)

\* The cache holds one index for each host:port.
WriteOnce(connectionIndexes) ==
    \A i, j \in 1..Len(connectionIndexes) :
        connectionIndexes[i].key = connectionIndexes[j].key => i = j

\* The connections are in the order of the indexes the cache holds for
\* their host:port.
InCachedOrder(connections, connectionIndexes) ==
    /\ \A i \in 1..Len(connections) :
           HasKey(connectionIndexes, HostPort(connections[i]))
    /\ \A i, j \in 1..Len(connections) :
           i < j => Get(connectionIndexes, HostPort(connections[i])).index
                    <= Get(connectionIndexes, HostPort(connections[j])).index

\* The host of a connection as the caller gave it.
GivenHostname(connection) ==
    Dflt(parseConnectionUrl(connection.url).hostname,
         Dflt(connection.hostname, callerConfig.defaults.connection.hostname))

\* The configured connections are those of the caller, in their order.
InInputOrder(connections, vhostConfig) ==
    /\ Len(connections) = Len(connectionsOf(vhostConfig))
    /\ \A i \in 1..Len(connections) :
           connections[i].hostname = GivenHostname(connectionsOf(vhostConfig)[i])

\* In the successful configure call with result r every host:port has one
\* index, the vhosts of another strategy than fixed have their connections
\* in the order of these indexes, and the vhosts of strategy fixed have
\* them in the order of the input.
IndexedOncePerCall(r) ==
    r.err = NoErr =>
        /\ WriteOnce(r.connectionIndexes)
        /\ \A v \in 1..Len(r.cfg.vhosts) :
               IF StrategyOf(v) = Fixed
               THEN InInputOrder(r.cfg.vhosts[v].connections,
                                 callerConfig.vhosts[v])
               ELSE InCachedOrder(r.cfg.vhosts[v].connections,
                                  r.connectionIndexes)

\* The two caches hold the same index for every host:port both hold.
SameIndexes(a, b) ==
    \A i \in 1..Len(a), j \in 1..Len(b) :
        a[i].key = b[j].key => a[i].index = b[j].index

Promoted(local, root, vhostConfig) ==
    \A i \in 1..Len(local) :
        /\ HasKey(root, local[i].key)
        /\ Get(root, local[i].key).vhost = vhostConfig.name

\* C17 as stated: after configure succeeds no vhost keeps publications or
\* subscriptions of its own, and every publication and subscription the
\* caller declared inside a vhost is in the root collection under the same
\* name, with that vhost.
LocalEntriesArePromoted ==
    (cpc # "input" /\ configured.err = NoErr) =>
        \A v \in 1..Len(configured.cfg.vhosts) :
            /\ configured.cfg.vhosts[v].publications = Absent
            /\ configured.cfg.vhosts[v].subscriptions = Absent
            /\ Promoted(callerConfig.vhosts[v].publications,
                        configured.cfg.publications, configured.cfg.vhosts[v])
            /\ Promoted(callerConfig.vhosts[v].subscriptions,
                        configured.cfg.subscriptions, configured.cfg.vhosts[v])

\* The publications the caller declared, each as [name, vhost, replyTo]
\* with the position of its vhost in the configuration (0 if there is no
\* such vhost).
VhostAt(name) ==
    IF \E v \in 1..Len(callerConfig.vhosts) : callerConfig.vhosts[v].key = name
    THEN CHOOSE v \in 1..Len(callerConfig.vhosts) : callerConfig.vhosts[v].key = name
    ELSE 0

DeclaredPublications ==
    {[name |-> callerConfig.vhosts[x[1]].publications[x[2]].key,
      vhost |-> x[1],
      replyTo |-> callerConfig.vhosts[x[1]].publications[x[2]].replyTo] :
        x \in {y \in (1..Len(callerConfig.vhosts)) \X (1..2) :
                  y[2] <= Len(callerConfig.vhosts[y[1]].publications)}}
    \cup {[name |-> callerConfig.publications[i].key,
           vhost |-> VhostAt(Dflt(callerConfig.publications[i].vhost,
                                  callerConfig.defaults.publicationVhost)),
           replyTo |-> callerConfig.publications[i].replyTo] :
              i \in 1..Len(callerConfig.publications)}

UnknownReplyQueue(p) ==
    <<"Publication: ">> \o p.name
    \o <<" refers to an unknown reply queue: ">> \o p.replyTo

\* The replyTo of the declared publication p is resolved: when it names a
\* queue of the vhost of p and configure succeeds, the configured
\* publication has the fully qualified name of that queue as replyTo; when
\* it names no queue of the vhost, configure fails with the error of the
\* unknown reply queue.
ReplyToResolved(p) ==
    IF HasKey(callerConfig.vhosts[p.vhost].queues, p.replyTo)
    THEN configured.err = NoErr =>
             /\ HasKey(configured.cfg.publications, p.name)
             /\ Get(configured.cfg.publications, p.name).replyTo =
                    Get(configured.cfg.vhosts[p.vhost].queues,
                        p.replyTo).fullyQualifiedName
    ELSE configured.err = UnknownReplyQueue(p)

\* C18 as stated: every publication with a replyTo whose vhost exists has
\* its replyTo resolved to the fully qualified name of the queue it names,
\* the tag of the queue included, or makes configure fail with the error
\* of the unknown reply queue (next(err), without a configuration).
EveryReplyToIsResolved ==
    cpc # "input" =>
        \A p \in DeclaredPublications :
            (Truthy(p.replyTo) /\ p.vhost # 0) => ReplyToResolved(p)

\* The calls under way after a step and the call the step ended.
CallsAfter == BagToSet(calls') \cup {last'.call[i] : i \in 1..Len(last'.call)}

\* C19 as stated: in every interleaving of subscribe and unsubscribeAll
\* calls a session leaves the live session list only in a step in which a
\* call has requested the cancel of that session, so that no session
\* leaves the list without being cancelled.
SessionsLeaveOnlyWhenCancelled ==
    [][\A i \in 1..Len(sessions) :
           ~InSeq(sessions[i], sessions') =>
               \E c \in CallsAfter : InSeq(sessions[i], c.requested)]_vars

\* A step of a verb that does not subscribe and does not unsubscribe, or
\* of a subscribe that fails or is of an unknown name.
FrameStep ==
    \/ \E name \in SubscriptionNames, o \in {"omitted", "object"} :
           subscribeUpTo(name, o, MaxLive)
    \/ \E c \in BagToSet(calls), defer \in 0..MaxDefer :
           SubscribeDone(c, FALSE, defer)
    \/ purge
    \/ \E c \in BagToSet(calls), ok \in BOOLEAN :
           c.verb = "purge" /\ VhostTaskDone(c, ok)
    \/ \E name \in PublicationNames, o \in Overrides : publish(name, o)
    \/ \E name \in PublicationNames, o \in Overrides : forward(name, o)
    \/ \E name \in VhostNames : connect(name)
    \/ getConnections

\* The step calls the callback of a subscribe (TRUE) or of an
\* unsubscribeAll (FALSE) without error.
Succeeds(c, isSubscribe) ==
    /\ c.verb = IF isSubscribe THEN "subscribe" ELSE "unsubscribeAll"
    /\ last'.call = <<c>>
    /\ last'.callbacks[1].err = NoErr

\* C20: subscribe appends its session once to the live session list in
\* the step that hands it to the caller, when the subscription's subscribe
\* succeeds; a failed subscribe, an unknown subscription name, publish,
\* forward, purge, connect and getConnections leave the list unchanged;
\* and when an unsubscribeAll calls back without error the list holds no
\* session that was live when it started, so that it is empty unless a
\* subscribe completed meanwhile.
SessionListFrame ==
    [][/\ FrameStep => sessions' = sessions
       /\ \A c \in BagToSet(calls) :
              /\ Succeeds(c, TRUE) =>
                     /\ Len(last'.callbacks[1].result) = 1
                     /\ sessions' = Append(sessions, last'.callbacks[1].result[1])
                     /\ ~InSeq(last'.callbacks[1].result[1], sessions)
              /\ Succeeds(c, FALSE) =>
                     \A i \in 1..Len(sessions') :
                         ~InSeq(sessions'[i], c.snapshot)]_vars

\* An unsubscribeAll of two sessions has called back without error and
\* the list is empty; two sessions were handed to callers before.
UnsubscribeAllEmptiedTheList ==
    /\ last.verb = "unsubscribeAll"
    /\ last.callbacks = <<Args(NoErr, <<>>)>>
    /\ Len(last.call[1].snapshot) = 2
    /\ sessions = <<>>
    /\ subscribed >= 2

=============================================================================
